---- MODULE Spec2Model ----
(***************************************************************************)
(* A model of brun: the orchestrator (sweeps, fan-out, call-stack cycle    *)
(* prevention), the state store, and the cron, git, file and boot          *)
(* triggers.                                                               *)
(*                                                                         *)
(* The specifications of the module share its variables:                   *)
(*   Spec      - the orchestrator running sweeps over a unit graph         *)
(*   FairSpec  - Spec with weak fairness on the orchestrator's own steps   *)
(*   CronSpec  - one cron trigger checked at arbitrary instants            *)
(*   GitSpec   - one git trigger checked in both modes                     *)
(*   ChainSpec - the orchestrator over cron -> git -> build                *)
(*   FileSpec  - one file trigger and the files matching its pattern       *)
(*   BootSpec  - one boot trigger across reboots and restarts              *)
(*   StoreSpec - the state store, its file written in steps                *)
(*   KindSpec  - the orchestrator over one unit of each kind               *)
(*   OnceSpec  - RunOnce under a context that may be cancelled             *)
(*   DaemonSpec - RunDaemon, its ticker, the cancellation and the exit     *)
(*   SingleSpec - RunSingleUnit with and without its triggers              *)
(*   NotifySpec - log, count, email and ntfy units as downstream targets   *)
(*   ActiveSpec - RunOnce and RunSingleUnit beside GetActiveUnit           *)
(*   TimedSpec  - the orchestrator over run units with a timeout           *)
(*   PersistSpec - units that write the state store, commits arriving      *)
(*   CountSpec  - count units over the counters of earlier runs            *)
(*   PollSpec   - one cron trigger checked at least once a minute          *)
(*   RepeatedSpec - one unit referencing the git trigger several times     *)
(***************************************************************************)
EXTENDS Integers, Sequences, FiniteSets, TLC

VARIABLES
    units,          \* Orchestrator.units: the configured unit list
    results,        \* Orchestrator.results: name -> result of the run
    activeUnit,     \* Orchestrator.activeUnit
    pc,             \* where the entry point stands: "idle", "sweep" (executions
                    \* may be open), "single", "select", "returned", "exited"
    isStartup,      \* the isStartup argument of the running sweep
    unitIdx,        \* position of the loop over o.units
    frames,         \* activation records of executeUnit/processTriggers
    sweeps,         \* sweeps started so far
    ran,            \* per sweep: name -> number of Run invocations
    lastRef,        \* the reference handled by the latest processTriggers step
    triggeringUnit, \* CountUnit/LogUnit.triggeringUnit: name -> name
    injected,       \* output and triggerError fields of the units: name -> record
    ctx,            \* the context of the entry point: "none" | "live" | "cancelled"
    call,           \* the entry point called, and what it returned
    ticker,         \* RunDaemon's ticker.C holds a tick
    data,           \* State.data: unit -> key -> value
    file,           \* the state file on disk: unit -> key -> value
    save,           \* State.Save: how far the write of the file has come
    now,            \* wall clock, in ticks
    schedule,       \* CronTrigger.schedule, as its period in minutes
    cron,           \* outcome of the latest CronTrigger.Check
    fired,          \* scheduled instants the cron trigger has fired for
    missed,         \* scheduled instants the cron trigger skipped as missed
    fires,          \* the latest fires of the cron trigger: [at, sched]
    git,            \* the git trigger and its repository
    files,          \* the file trigger and the files matching its pattern
    boot            \* the boot trigger and the machine's boot instant

orchVars == <<units, results, activeUnit, pc, isStartup, unitIdx, frames,
              sweeps, ran, lastRef, triggeringUnit, injected, ctx, call, ticker>>
entryVars == <<call, ticker>>
storeVars == <<data, file, save>>
cronVars == <<now, schedule, cron, fired, missed, fires>>
gitVars == <<git>>
watchVars == <<files, boot>>
vars == <<orchVars, storeVars, cronVars, gitVars, watchVars>>

----------------------------------------------------------------------------
(* Bounds *)

MaxSweeps == 2
MaxDepth == 6
MaxMinutes == 4
MaxFiles == 2
MaxBoots == 2
MaxBootCount == 3
TicksPerSecond == 2
MaxCount == 2

----------------------------------------------------------------------------
(* Helpers *)

Second == TicksPerSecond

Minute == 60 * Second

None == "none"

EmptyMap == [x \in {} |-> None]

Range(s) == {s[i] : i \in 1..Len(s)}

Last(s) == s[Len(s)]

\* the cron trigger before its first check
NoCheck == [flip |-> 0, branch |-> "none", nextRun |-> 0, fired |-> FALSE,
            err |-> FALSE]

\* no Save is writing the state file
NoSave == [phase |-> "none", last |-> "none", unit |-> "", key |-> "", value |-> None,
           ok |-> FALSE, loadOk |-> FALSE, old |-> EmptyMap, new |-> EmptyMap]

\* a file trigger that has not been constructed
NoFiles == [tree |-> << >>, flip |-> 0, fired |-> FALSE, err |-> FALSE,
            settled |-> FALSE, prevFired |-> FALSE]

\* a boot trigger that has not been constructed
NoBoot == [bootTime |-> 0, flip |-> 0, fired |-> FALSE, err |-> FALSE,
           computed |-> 0, firesThisBoot |-> 0, restarted |-> FALSE,
           last |-> "none"]

\* a git trigger that has not been constructed
NoGit == [pollInterval |-> 0, everChecked |-> FALSE, lastCheckTime |-> 0,
          head |-> "", flip |-> 0, mode |-> "none", fired |-> FALSE,
          err |-> FALSE, inspected |-> FALSE, why |-> "none", prev |-> "none"]

\* the fields SetOutput and SetTriggerError fill, before any call of them
NoContext == [output |-> [unit |-> "", run |-> 0], triggerError |-> None]

\* no entry point has been called
NoCall == [op |-> "none", unit |-> "", runTriggers |-> FALSE, ret |-> None]

----------------------------------------------------------------------------
(* Unit graphs.  A unit is a record; a graph is the list o.units. *)

U(n, t, os, of, al) ==
    [name |-> n, type |-> t, onSuccess |-> os, onFailure |-> of, always |-> al]

\* TestOrchestrator_MultipleUnitsCanTriggerSameUnit: start -> a, b ; a, b -> c
SharedSink ==
    << U("start", "trigger.start", <<"a", "b">>, <<>>, <<>>),
       U("a", "run", <<>>, <<>>, <<"c">>),
       U("b", "run", <<>>, <<>>, <<"c">>),
       U("c", "count", <<>>, <<>>, <<>>) >>

\* TestOrchestrator_CircularDependencyDetection: start -> a -> b -> a
IndirectCycle ==
    << U("start", "trigger.start", <<"a">>, <<>>, <<>>),
       U("a", "run", <<"b">>, <<>>, <<>>),
       U("b", "run", <<"a">>, <<>>, <<>>) >>

\* TestOrchestrator_SelfReferentialCircularDependency: start -> a -> a
SelfLoop ==
    << U("start", "trigger.start", <<"a">>, <<>>, <<>>),
       U("a", "run", <<"a">>, <<>>, <<>>) >>

\* TestOrchestrator_ComplexChainWithReusedUnits: start -> a, b -> l -> c
ComplexChain ==
    << U("start", "trigger.start", <<"a", "b">>, <<>>, <<>>),
       U("a", "run", <<"l">>, <<>>, <<>>),
       U("b", "run", <<"l">>, <<>>, <<>>),
       U("l", "log", <<>>, <<>>, <<"c">>),
       U("c", "count", <<>>, <<>>, <<>>) >>

\* TestOrchestrator_TriggerUnitChecksConditionWhenTriggered: start -> t -> a
GatedTrigger ==
    << U("start", "trigger.start", <<"t">>, <<>>, <<>>),
       U("t", "trigger.file", <<"a">>, <<"c">>, <<"c">>),
       U("a", "run", <<>>, <<>>, <<>>),
       U("c", "count", <<>>, <<>>, <<>>) >>

\* a reference to a name that is no unit, and a cycle through the start unit
UnknownRef ==
    << U("start", "trigger.start", <<"ghost", "a">>, <<>>, <<>>),
       U("a", "run", <<"start">>, <<"ghost">>, <<"t">>),
       U("t", "trigger.file", <<>>, <<>>, <<"a", "start">>) >>

\* the reference lists a unit of the generated graphs may carry
RefLists == { <<>>, <<"t", "c">>, <<"a", "c">> }

\* the ways a unit's three lists are filled in the generated graphs
Wirings ==
    { w \in [onSuccess : RefLists, onFailure : RefLists, always : RefLists] :
        \/ w.onSuccess = <<>> /\ w.onFailure = <<>>
        \/ w.onSuccess = <<>> /\ w.always = <<>>
        \/ w.onFailure = <<>> /\ w.always = <<>> }

Generated ==
    { << U("start", "trigger.start", <<"a">>, <<>>, <<"t">>),
         U("a", "run", wa.onSuccess, wa.onFailure, wa.always),
         U("t", "trigger.file", wt.onSuccess, wt.onFailure, wt.always),
         U("c", "count", <<>>, <<>>, wc) >> :
        wa \in Wirings, wt \in Wirings, wc \in {<<>>, <<"a">>} }

Graphs ==
    {SharedSink, IndirectCycle, SelfLoop, ComplexChain, GatedTrigger, UnknownRef}
        \cup Generated

----------------------------------------------------------------------------
(* The state store *)

\* State.Get: the value and whether it is there
Has(d, unitName, key) == unitName \in DOMAIN d /\ key \in DOMAIN d[unitName]

Get(d, unitName, key) == IF Has(d, unitName, key) THEN d[unitName][key] ELSE None

\* variant: the unit's map is made anew for the key
PutFreshUnitMap(d, unitName, key, value) ==
    [u \in DOMAIN d \cup {unitName} |->
        IF u = unitName THEN [k \in {key} |-> value] ELSE d[u]]

\* State.Set, the in-memory part: the store with unitName.key = value
Put(d, unitName, key, value) ==
    LET unitMap == IF unitName \in DOMAIN d THEN d[unitName] ELSE EmptyMap
        newMap  == [k \in DOMAIN unitMap \cup {key} |->
                       IF k = key THEN value ELSE unitMap[k]]
    IN  [u \in DOMAIN d \cup {unitName} |-> IF u = unitName THEN newMap ELSE d[u]]

\* variant: Save returns without having written
SavedNothing(d, f, saved) == f

\* State.Save: the file once Save has returned, f being what a failed Save
\* leaves behind
Saved(d, f, saved) == IF saved THEN d ELSE f

\* State.Set: mutate the map, then Save; Save either rewrites the whole file
\* or fails and leaves it as it was.  The map is mutated in both cases.
Set(unitName, key, value, saved) ==
    /\ data' = Put(data, unitName, key, value)
    /\ file' = Saved(data', file, saved)
    /\ save' = save

----------------------------------------------------------------------------
(* The orchestrator *)

Names(g) == {g[i].name : i \in 1..Len(g)}

\* NewOrchestrator: unitsByName[unit.Name()] = unit, a later unit replacing
\* an earlier one of the same name
unitsByName(g, n) ==
    g[CHOOSE i \in 1..Len(g) : g[i].name = n /\ \A j \in i+1..Len(g) : g[j].name # n]

TriggerTypes ==
    {"trigger.start", "trigger.boot", "trigger.cron", "trigger.file", "trigger.git"}

IsTriggerUnit(u) == u.type \in TriggerTypes

\* variant: only the boot trigger is taken for a startup-only kind
StartupOnlyBoot(u) == u.type = "trigger.boot"

\* the startup-only kinds skipped by every sweep but the first
StartupOnly(u) == u.type = "trigger.boot" \/ u.type = "trigger.start"

\* the ntfy unit declares OnSuccess, OnFailure and Always like the other
\* action units; its case of the type switch is taken from the fan-out rule
NtfyHasTriggerFields(u) == u.type = "ntfy"

\* processTriggers' type switch: the kinds whose reference lists are read
HasTriggerFields(u) ==
    \/ IsTriggerUnit(u)
    \/ u.type \in {"run", "reboot", "log", "count", "email"}
    \/ NtfyHasTriggerFields(u)

\* variant: the else is missing, on_failure is appended after every run
toTriggerNoElse(u, execErr) ==
    IF HasTriggerFields(u)
    THEN (IF ~execErr THEN u.onSuccess ELSE <<>>) \o u.onFailure \o u.always
    ELSE <<>>

toTrigger(u, execErr) ==
    IF HasTriggerFields(u)
    THEN (IF ~execErr THEN u.onSuccess ELSE u.onFailure) \o u.always
    ELSE <<>>

\* variant: only the caller itself is recognised as a cycle
InCallStackTopOnly(callStack, unitName) == Last(callStack) = unitName

\* variant: the earlier rule, skip whatever already has a result
AlreadyExecuted(callStack, unitName) == unitName \in DOMAIN results

\* the loop over callStack looking for unitName
InCallStack(callStack, unitName) == unitName \in Range(callStack)

\* variant: a referenced trigger is executed whatever its check said
ProceedsUnchecked(target, outcome) == TRUE

\* the gate on a referenced unit: a trigger unit runs only when its check
\* returned (true, nil); outcome is "n/a" for other units
Proceeds(target, outcome) == IsTriggerUnit(target) => outcome = "fire"

----------------------------------------------------------------------------
(* The git trigger *)

GitName == "git"

Hashes == {"h1", "h2", "h3"}

PollIntervals == {0, 10 * Second, Minute}

CheckModes == {"polling", "manual"}

\* a git trigger that takes no part in polling sweeps
NeverPassive(mode, pollInterval) == FALSE

Passive(mode, pollInterval) == mode = "polling" /\ pollInterval = 0

\* variant: the poll interval holds back no check
ThrottledNever(mode, g, t) == FALSE

\* variant: the poll interval holds back checks in either mode
ThrottledAnyMode(mode, g, t) ==
    /\ g.everChecked
    /\ t - g.lastCheckTime < g.pollInterval

\* the last check was less than one poll interval ago
Throttled(mode, g, t) ==
    /\ mode = "polling"
    /\ g.everChecked
    /\ t - g.lastCheckTime < g.pollInterval

\* variant: a changed HEAD fires without being recorded
GitDecisionUnrecorded(d, head, io) ==
    IF io # "ok"
        THEN [fire |-> FALSE, write |-> FALSE, why |-> "error"]
    ELSE IF ~Has(d, GitName, "last_commit_hash")
        THEN [fire |-> TRUE, write |-> TRUE, why |-> "first"]
    ELSE IF head # Get(d, GitName, "last_commit_hash")
        THEN [fire |-> TRUE, write |-> FALSE, why |-> "changed"]
    ELSE [fire |-> FALSE, write |-> FALSE, why |-> "same"]

\* what checkForGitUpdates decides: io is the outcome of updating the
\* workspace and reading HEAD
GitDecision(d, head, io) ==
    IF io # "ok"
        THEN [fire |-> FALSE, write |-> FALSE, why |-> "error"]
    ELSE IF ~Has(d, GitName, "last_commit_hash")
        THEN [fire |-> TRUE, write |-> TRUE, why |-> "first"]
    ELSE IF head # Get(d, GitName, "last_commit_hash")
        THEN [fire |-> TRUE, write |-> TRUE, why |-> "changed"]
    ELSE [fire |-> FALSE, write |-> FALSE, why |-> "same"]

\* what a check returned, read off the trigger's record
GitResult(g) == IF g.err THEN "error" ELSE IF g.fired THEN "fire" ELSE "skip"

\* GitTrigger.Check(ctx, mode) returning outcome
GitCheckAs(mode, outcome) ==
    /\ IF Passive(mode, git.pollInterval) \/ Throttled(mode, git, now)
          THEN /\ git' = [git EXCEPT !.flip = 1 - @, !.mode = mode, !.fired = FALSE,
                                     !.err = FALSE, !.inspected = FALSE,
                                     !.why = "skipped", !.prev = git.why]
               /\ UNCHANGED storeVars
          ELSE \E io \in {"ok", "update-failed", "head-failed"}, saved \in BOOLEAN :
                  LET dec == GitDecision(data, git.head, io) IN
                  /\ dec.write \/ saved
                  /\ IF dec.write
                        THEN Set(GitName, "last_commit_hash", git.head, saved)
                        ELSE UNCHANGED storeVars
                  /\ git' = [git EXCEPT
                                !.flip = 1 - @,
                                !.mode = mode,
                                !.everChecked = IF mode = "polling" THEN TRUE ELSE @,
                                !.lastCheckTime = IF mode = "polling" THEN now ELSE @,
                                !.fired = dec.fire /\ saved,
                                !.err = (io # "ok") \/ (dec.write /\ ~saved),
                                !.inspected = TRUE,
                                !.why = IF dec.write /\ ~saved THEN "error" ELSE dec.why,
                                !.prev = git.why]
    /\ outcome = GitResult(git')

----------------------------------------------------------------------------
(* The orchestrator's units *)

\* what Check(ctx, mode) of a unit may return: (true, nil), (false, nil) or
\* an error.  The start trigger always fires; the condition of the other
\* triggers is decided by the repository, the files or the clock.
CheckOutcomes(u, mode) ==
    IF u.type = "trigger.start" THEN {"fire"} ELSE {"fire", "skip", "error"}

\* unit.Check(ctx, mode) returning outcome: the git trigger decides from its
\* repository and the state
Check(u, mode, outcome) ==
    IF u.type = "trigger.git"
    THEN GitCheckAs(mode, outcome)
    ELSE /\ outcome \in CheckOutcomes(u, mode)
         /\ UNCHANGED <<storeVars, gitVars>>

\* whether Run may return an error: the start and cron triggers only log
RunErrors(u) ==
    IF u.type \in {"trigger.start", "trigger.cron"} THEN {FALSE} ELSE BOOLEAN

\* CountUnit.Run: increment the counter kept for the triggering unit (the
\* field as the orchestrator's setter left it just before the run)
CountRun(u, saved) ==
    LET unitName == IF triggeringUnit'[u.name] = "" THEN "unknown"
                    ELSE triggeringUnit'[u.name]
        currentCount == IF Has(data, u.name, unitName)
                        THEN data[u.name][unitName] ELSE 0
    IN  Set(u.name, unitName, currentCount + 1, saved)

\* unit.Run: its effect on the state store, given whether it returns an error
Run(u, err) ==
    IF u.type = "count" THEN CountRun(u, ~err)
    ELSE IF IsTriggerUnit(u) THEN TRUE
    ELSE UNCHANGED storeVars

\* the units whose Run hands ctx to what it waits for: the run unit to
\* exec.CommandContext, the ntfy unit to http.NewRequestWithContext
ObservesContext(u) == u.type \in {"run", "ntfy"}

\* whether ctx is cancelled while the unit runs
Interrupts == IF ctx = "live" THEN BOOLEAN ELSE {FALSE}

\* RunUnit.timeout: zero when the unit has none
Timeout(u) == IF "timeout" \in DOMAIN u THEN u.timeout ELSE 0

\* the time the script of a run unit would take if it were left alone, in
\* the unit of the timeout: less or more than the timeout
Elapsed(u) ==
    IF u.type = "run" /\ Timeout(u) > 0
    THEN {Timeout(u) - 1, Timeout(u) + 1}
    ELSE {0}

\* the deadline of context.WithTimeout passes while the script still runs:
\* exec.CommandContext kills the subprocess and cmd.Run returns an error
DeadlineExceeded(u, elapsed) ==
    u.type = "run" /\ Timeout(u) > 0 /\ elapsed > Timeout(u)

\* variant: a run cut short by the cancellation reports the cancellation
CausesCancelAware(u, err, c, interrupted, elapsed) ==
    IF ~err THEN {"nil"}
    ELSE IF ObservesContext(u) /\ (c = "cancelled" \/ interrupted) THEN {"cancelled"}
    ELSE IF DeadlineExceeded(u, elapsed) THEN {"timeout"}
    ELSE IF u.type = "run" THEN {"exit"}
    ELSE {"failed"}

\* variant: the killed script is reported by its exit code, deadline or not
CausesNoDeadline(u, err, c, interrupted, elapsed) ==
    IF ~err THEN {"nil"}
    ELSE IF u.type = "run"
         THEN IF c = "cancelled" THEN {"cancelled"}
              ELSE IF interrupted THEN {"exit", "cancelled"}
              ELSE {"exit"}
    ELSE IF u.type = "ntfy" /\ (c = "cancelled" \/ interrupted) THEN {"cancelled"}
    ELSE {"failed"}

\* the error Run returns, by kind.  RunUnit.Run: the deadline of the unit's
\* timeout has passed ("timeout"), a script that exited with a code, the
\* killed subprocess included ("exit"), or a command that could not be run,
\* which wraps ctx's error when ctx ended it ("cancelled")
Causes(u, err, c, interrupted, elapsed) ==
    IF ~err THEN {"nil"}
    ELSE IF u.type = "run"
         THEN IF c = "cancelled" THEN {"cancelled"}
              ELSE IF interrupted THEN {"exit", "cancelled"}
              ELSE IF DeadlineExceeded(u, elapsed) THEN {"timeout"}
              ELSE {"exit"}
    ELSE IF u.type = "ntfy" /\ (c = "cancelled" \/ interrupted) THEN {"cancelled"}
    ELSE {"failed"}

\* the text of the error: fmt.Errorf("task timed out after %s", r.timeout)
\* for a passed deadline
ErrorText(u, cause) ==
    IF cause = "timeout" THEN <<"task timed out after ", Timeout(u)>> ELSE <<cause>>

\* variant: the execution is queued behind the ones already open
Enqueue(callers, frame) == <<frame>> \o callers

\* the call of executeUnit: its activation goes on top of its callers'
Push(callers, frame) == Append(callers, frame)

\* the propagated output of an execution: what this run of the unit printed
Output(u) == [unit |-> u.name, run |-> ran[u.name] + 1]

\* executeUnit up to its call of processTriggers: mark the unit active, run
\* it, store the result, assemble the downstream list
executeUnit(u, callStack, callers) ==
    \E err \in RunErrors(u), interrupted \in Interrupts, elapsed \in Elapsed(u) :
        \E cause \in Causes(u, err, ctx, interrupted, elapsed) :
        /\ (ObservesContext(u) /\ (ctx = "cancelled" \/ interrupted)) => err
        /\ DeadlineExceeded(u, elapsed) => err
        /\ Run(u, err)
        /\ ctx' = IF interrupted THEN "cancelled" ELSE ctx
        /\ activeUnit' = u.name
        /\ ran' = [ran EXCEPT ![u.name] = @ + 1]
        /\ results' = [n \in DOMAIN results \cup {u.name} |->
                          IF n = u.name
                          THEN [error |-> err, cause |-> cause, output |-> Output(u),
                                interrupted |-> interrupted, elapsed |-> elapsed,
                                text |-> ErrorText(u, cause)]
                          ELSE results[n]]
        /\ frames' = Push(callers,
                        [unit |-> u.name, callStack |-> callStack,
                         toTrigger |-> toTrigger(u, err), i |-> 1, execErr |-> err,
                         cause |-> cause, output |-> Output(u)])

NoRef == [from |-> "", target |-> "", callStack |-> <<>>, check |-> "n/a",
          outcome |-> "none"]

InitOrch ==
    /\ units \in Graphs
    /\ results = EmptyMap
    /\ activeUnit = ""
    /\ pc = "idle"
    /\ isStartup = TRUE
    /\ unitIdx = 1
    /\ frames = <<>>
    /\ sweeps = 0
    /\ ran = [n \in Names(units) |-> 0]
    /\ lastRef = NoRef
    /\ triggeringUnit = [n \in Names(units) |-> ""]
    /\ injected = [n \in Names(units) |-> NoContext]
    /\ ctx = "none"
    /\ call = NoCall
    /\ ticker = FALSE

\* variant: the results of the previous sweep are kept
KeepResults == results

\* checkAndExecuteTriggers clears the results map
ClearedResults == EmptyMap

\* checkAndExecuteTriggers(ctx, startup) is entered
BeginSweep(startup) ==
    /\ pc' = "sweep"
    /\ sweeps' = sweeps + 1
    /\ isStartup' = startup
    /\ results' = ClearedResults
    /\ ran' = [n \in Names(units) |-> 0]
    /\ unitIdx' = 1
    /\ lastRef' = NoRef
    /\ UNCHANGED <<units, activeUnit, frames, triggeringUnit, injected, ctx>>
    /\ UNCHANGED <<storeVars, cronVars, gitVars, watchVars>>

\* checkAndExecuteTriggers is entered: by RunOnce or by RunDaemon's first
\* call with isStartup, by RunDaemon's ticker without
SweepBegin ==
    /\ pc = "idle"
    /\ sweeps < MaxSweeps
    /\ BeginSweep(sweeps = 0)
    /\ UNCHANGED entryVars

\* one iteration of checkAndExecuteTriggers' loop over o.units
CheckTrigger ==
    /\ pc = "sweep"
    /\ frames = <<>>
    /\ unitIdx <= Len(units)
    /\ unitIdx' = unitIdx + 1
    /\ UNCHANGED <<units, pc, isStartup, sweeps, lastRef, triggeringUnit, injected>>
    /\ UNCHANGED <<entryVars, cronVars, watchVars>>
    /\ LET unit == units[unitIdx] IN
        \/ /\ ~IsTriggerUnit(unit) \/ (~isStartup /\ StartupOnly(unit))
           /\ UNCHANGED <<results, activeUnit, frames, ran, ctx, storeVars, gitVars>>
        \/ /\ IsTriggerUnit(unit) /\ ~(~isStartup /\ StartupOnly(unit))
           /\ \E outcome \in {"fire", "skip", "error"} :
                /\ Check(unit, "polling", outcome)
                /\ IF outcome = "fire"
                   THEN executeUnit(unit, <<unit.name>>, <<>>)
                   ELSE UNCHANGED <<results, activeUnit, frames, ran, ctx>>

\* the ntfy unit declares SetOutput, SetTriggeringUnit and SetTriggerError
\* like the email unit; its calls are taken from the fan-out rule
NtfyIsInjected(target) == target.type = "ntfy"

\* the setters processTriggers calls on a log, count or email target
Inject(target, from) ==
    IF target.type \in {"log", "count", "email"} \/ NtfyIsInjected(target)
    THEN [triggeringUnit EXCEPT ![target.name] = from]
    ELSE triggeringUnit

\* variant: the email unit is handed the output, the error is forgotten
InjectContextNoError(target, output, execErr) ==
    IF target.type \in {"log", "email"} \/ NtfyIsInjected(target)
    THEN [injected EXCEPT ![target.name].output = output]
    ELSE injected

\* SetOutput on a log target, SetOutput and SetTriggerError on an email target
InjectContext(target, output, execErr) ==
    IF target.type = "log"
    THEN [injected EXCEPT ![target.name].output = output]
    ELSE IF target.type = "email" \/ NtfyIsInjected(target)
    THEN [injected EXCEPT ![target.name] =
                              [output |-> output, triggerError |-> execErr]]
    ELSE injected

\* variant: the loop is left at the first reference that is not executed
Abandon(frame) == [frame EXCEPT !.i = Len(frame.toTrigger) + 1]

\* continue: the loop over toTrigger goes on to the next reference
Continue(frame) == [frame EXCEPT !.i = @ + 1]

\* one iteration of processTriggers' loop over toTrigger
ProcessRef ==
    /\ pc = "sweep"
    /\ frames # <<>>
    /\ Last(frames).i <= Len(Last(frames).toTrigger)
    /\ LET top      == Last(frames)
           unitName == top.toTrigger[top.i]
           skipped  == [frames EXCEPT ![Len(frames)] = Continue(@)]
           callers  == [frames EXCEPT ![Len(frames)].i = @ + 1]
           ref(c, o) == [from |-> top.unit, target |-> unitName,
                         callStack |-> top.callStack, check |-> c, outcome |-> o]
       IN
        \/ /\ unitName \notin Names(units)
           /\ frames' = skipped
           /\ lastRef' = ref("n/a", "unknown")
           /\ UNCHANGED <<results, activeUnit, ran, triggeringUnit, injected, ctx,
                          storeVars, gitVars>>
        \/ /\ unitName \in Names(units)
           /\ LET targetUnit == unitsByName(units, unitName) IN
              /\ triggeringUnit' = Inject(targetUnit, top.unit)
              /\ injected' = InjectContext(targetUnit, top.output, top.cause)
              /\ \/ /\ InCallStack(top.callStack, unitName)
                    /\ frames' = skipped
                    /\ lastRef' = ref("n/a", "cycle")
                    /\ UNCHANGED <<results, activeUnit, ran, ctx, storeVars, gitVars>>
                 \/ /\ ~InCallStack(top.callStack, unitName)
                    /\ \E outcome \in {"fire", "skip", "error", "n/a"} :
                         /\ IF IsTriggerUnit(targetUnit)
                            THEN Check(targetUnit, "manual", outcome)
                            ELSE outcome = "n/a" /\ UNCHANGED gitVars
                         /\ IF Proceeds(targetUnit, outcome)
                            THEN /\ Len(frames) < MaxDepth
                                 /\ lastRef' = ref(outcome, "executed")
                                 /\ executeUnit(targetUnit,
                                                Append(top.callStack, unitName), callers)
                            ELSE /\ frames' = skipped
                                 /\ lastRef' = ref(outcome, "skipped")
                                 /\ IsTriggerUnit(targetUnit) \/ UNCHANGED storeVars
                                 /\ UNCHANGED <<results, activeUnit, ran, ctx>>
    /\ UNCHANGED <<units, pc, isStartup, unitIdx, sweeps>>
    /\ UNCHANGED <<entryVars, cronVars, watchVars>>

\* variant: no deferred call, the marker stays as the execution left it
DeferredNothing(marker) == marker

\* defer o.setActiveUnit(""): what the marker is once executeUnit returned
Deferred(marker) == ""

\* processTriggers' loop is over: executeUnit returns and its deferred
\* setActiveUnit("") runs
Return ==
    /\ pc = "sweep"
    /\ frames # <<>>
    /\ Last(frames).i > Len(Last(frames).toTrigger)
    /\ frames' = SubSeq(frames, 1, Len(frames) - 1)
    /\ activeUnit' = Deferred(activeUnit)
    /\ UNCHANGED <<units, results, pc, isStartup, unitIdx, sweeps, ran, lastRef,
                   triggeringUnit, injected, ctx>>
    /\ UNCHANGED <<entryVars, storeVars, cronVars, gitVars, watchVars>>

\* the loop over o.units is over and the caller goes on at p
EndSweep(p) ==
    /\ pc = "sweep"
    /\ frames = <<>>
    /\ unitIdx > Len(units)
    /\ pc' = p
    /\ UNCHANGED <<units, results, activeUnit, isStartup, unitIdx, frames, sweeps,
                   ran, lastRef, triggeringUnit, injected, ctx>>
    /\ UNCHANGED <<storeVars, cronVars, gitVars, watchVars>>

\* checkAndExecuteTriggers returns
SweepEnd ==
    /\ EndSweep("idle")
    /\ UNCHANGED entryVars

Init ==
    /\ InitOrch
    /\ data = EmptyMap
    /\ file = EmptyMap
    /\ now = 0
    /\ schedule = 1
    /\ cron = NoCheck
    /\ fired = {}
    /\ missed = {}
    /\ fires = <<>>
    /\ git = NoGit
    /\ save = NoSave
    /\ files = NoFiles
    /\ boot = NoBoot

Next == SweepBegin \/ CheckTrigger \/ ProcessRef \/ Return \/ SweepEnd

Spec == Init /\ [][Next]_vars

\* each check and each run returns, so the sweep task always takes its next step
FairSpec == Spec /\ WF_vars(CheckTrigger \/ ProcessRef \/ Return \/ SweepEnd)

----------------------------------------------------------------------------
(* Properties of the orchestrator *)

NoDup(s) == \A i, j \in 1..Len(s) : s[i] = s[j] => i = j

\* the step is one iteration of processTriggers' loop
IsProcessRef ==
    /\ pc = "sweep"
    /\ frames # <<>>
    /\ Last(frames).i <= Len(Last(frames).toTrigger)
    /\ frames' # frames

\* C1: during fan-out, when the referenced unit is a trigger unit whose
\* check(ctx, Manual) returned false (with or without an error), the step
\* invokes no run, stores no result and opens no execution of the target, so
\* none of the target's reference lists is expanded along that edge.
C1_GatedTriggerNotRun ==
    [][ (IsProcessRef /\ lastRef'.check \in {"skip", "error"}) =>
            /\ ran' = ran
            /\ results' = results
            /\ Len(frames') = Len(frames)
            /\ Last(frames').unit = Last(frames).unit
            /\ storeVars' = storeVars ]_vars

C1_Witness ==
    /\ lastRef.check = "skip"
    /\ lastRef.target = "t"
    /\ units = GatedTrigger
    /\ ran["t"] = 0 /\ ran["a"] = 0 /\ ran["c"] = 0
    /\ pc = "sweep" /\ frames = <<>>

\* C2: every call stack of every execution in progress holds each unit name at
\* most once, and a reference to a unit whose name is on the incoming call
\* stack is skipped, never executed.
C2_NoRepeatOnCallStack ==
    /\ \A k \in 1..Len(frames) : NoDup(frames[k].callStack)
    /\ lastRef.target \in Range(lastRef.callStack) => lastRef.outcome = "cycle"
    /\ lastRef.outcome = "executed" => lastRef.target \notin Range(lastRef.callStack)

C2_Witness ==
    /\ lastRef.outcome = "cycle"
    /\ Len(lastRef.callStack) >= 3
    /\ lastRef.target # lastRef.from

\* C3: every sweep that starts ends, whatever the graph (cycles included),
\* given that each check and run returns.
C3_SweepTerminates == (pc = "sweep") ~> (pc = "idle")

C3_Witness ==
    /\ pc = "idle"
    /\ sweeps = 1
    /\ units = IndirectCycle
    /\ ran["a"] = 1 /\ ran["b"] = 1
    /\ lastRef.outcome = "cycle"

\* C4: a reference to an action unit that is not on the referencing branch's
\* call stack executes it, once per reference; with start -> a, b and a, b ->
\* c (always), the store holds c: {a: 1, b: 1} after one sweep.
C4_SharedSinkCounts ==
    (units = SharedSink /\ pc = "idle" /\ sweeps = 1) =>
        /\ DOMAIN data = {"c"}
        /\ DOMAIN data["c"] = {"a", "b"}
        /\ data["c"]["a"] = 1
        /\ data["c"]["b"] = 1

C5_ResultsIffRan ==
    /\ DOMAIN results \subseteq Names(units)
    /\ \A n \in Names(units) : n \in DOMAIN results <=> ran[n] > 0

C5_Witness ==
    /\ sweeps = 2
    /\ Has(data, "c", "a")
    /\ "c" \notin DOMAIN results
    /\ "a" \notin DOMAIN results
    /\ "t" \in DOMAIN results

----------------------------------------------------------------------------
(* The clock *)

\* the instants within a minute at which the clock is read: on the minute,
\* a fraction of a second later, one ticker period later, mid-minute and a
\* fraction of a second before the next minute
Offsets == {0, 1, 10 * Second, 30 * Second + 1, 60 * Second - 1}

Instants == {m * Minute + o : m \in 0..(MaxMinutes - 1), o \in Offsets}

\* time passes
Tick ==
    /\ \E t \in Instants : t > now /\ now' = t
    /\ UNCHANGED <<schedule, cron, fired, missed, fires>>
    /\ UNCHANGED <<orchVars, storeVars, gitVars, watchVars>>

\* the step ends an execution: its processTriggers loop is over
IsReturn ==
    /\ pc = "sweep"
    /\ frames # <<>>
    /\ Len(frames') = Len(frames) - 1

\* C21: within a sweep the trigger units are checked in configured order,
\* one position of o.units after the other, and the next one is checked only
\* when the chain of the previous one is complete; fan-out is depth-first:
\* every open execution but the innermost is waiting for the reference it
\* handled last, whose target is the execution right above it, so the next
\* reference of a list starts only when the whole subtree of the previous
\* one has returned.
C21_DepthFirst ==
    /\ [](\A j \in 1..(Len(frames) - 1) :
            /\ frames[j].i >= 2
            /\ frames[j].toTrigger[frames[j].i - 1] = frames[j + 1].unit
            /\ frames[j + 1].callStack = Append(frames[j].callStack, frames[j + 1].unit))
    /\ [](frames # <<>> =>
            /\ unitIdx >= 2
            /\ frames[1].unit = units[unitIdx - 1].name
            /\ frames[1].callStack = <<frames[1].unit>>)
    /\ [][ /\ unitIdx' # unitIdx =>
               /\ frames = <<>> /\ activeUnit = ""
               /\ unitIdx' = unitIdx + 1 \/ (pc = "idle" /\ unitIdx' = 1)
           /\ IsProcessRef =>
               /\ lastRef'.from = Last(frames).unit
               /\ Len(frames') > Len(frames) => Last(frames').unit = lastRef'.target ]_vars

\* a reference two levels down is being handled while a later reference of
\* the trigger's own list still waits
C21_Witness ==
    /\ Len(frames) >= 3
    /\ frames[1].i <= Len(frames[1].toTrigger)
    /\ lastRef.from = frames[2].unit
    /\ lastRef.target = frames[3].unit

\* C29: with start -> a -> b -> a, one sweep runs a exactly once and b at
\* most once, exactly once when a's script succeeded as it does in the test;
\* with start -> a -> a it runs a exactly once; in both graphs the repeated
\* reference to a is skipped as a cycle and runs nothing.
C29_OncePerCycle ==
    /\ []((units = IndirectCycle /\ pc = "idle" /\ sweeps = 1) =>
              /\ ran["a"] = 1
              /\ ran["b"] <= 1
              /\ (~results["a"].error) => ran["b"] = 1)
    /\ []((units = SelfLoop /\ pc = "idle" /\ sweeps = 1) => ran["a"] = 1)
    /\ [][ (/\ IsProcessRef
            /\ units \in {IndirectCycle, SelfLoop}
            /\ lastRef'.from \in {"a", "b"}
            /\ lastRef'.target = "a") =>
                /\ lastRef'.outcome = "cycle"
                /\ ran' = ran
                /\ results' = results
                /\ Len(frames') = Len(frames) ]_vars

\* the sweep over start -> a -> b -> a is over: a and b ran once each and the
\* last reference processed, b's to a, was skipped as a cycle
C29_Witness ==
    /\ units = IndirectCycle /\ pc = "idle" /\ sweeps = 1
    /\ ran["a"] = 1 /\ ran["b"] = 1
    /\ lastRef.from = "b" /\ lastRef.target = "a" /\ lastRef.outcome = "cycle"

----------------------------------------------------------------------------
(* The cron trigger *)

CronName == "cron"

\* the cron expressions of the model: every minute, every second minute
Schedules == {1, 2}

\* Format(time.RFC3339): the instant in whole seconds, the fraction dropped
Format(t) == t \div Second

\* time.Parse(time.RFC3339, s)
Parse(str) == str * Second

\* sched.Next(t): the first instant of the schedule that is later than t,
\* searched from the whole second that follows t
SchedNext(period, t) ==
    LET from == (t \div Second) + 1
        p    == period * 60
    IN  ((from + p - 1) \div p) * p * Second

\* variant: the wall-clock instant of the check is persisted
FireStampNow(nextRun, t) == t

\* variant: the instant the schedule was probed from is persisted
FireStampProbe(nextRun, t) == t - Minute

\* the instant persisted when the trigger fires: the scheduled time (nextRun)
\* rather than the current time (now)
FireStamp(nextRun, t) == nextRun

toleranceWindow == 60 * Second

\* variant: no scheduled time is ever given up
MissedNever(timeSinceScheduled) == FALSE

\* variant: a run exactly one tolerance window late is given up
MissedInclusive(timeSinceScheduled) == timeSinceScheduled >= toleranceWindow

\* a scheduled time in the past is a missed run
Missed(timeSinceScheduled) == timeSinceScheduled > toleranceWindow

\* CronTrigger.Check up to its state write: the branch taken, the scheduled
\* time looked at, and whether and what it writes to the state.
\* last_execution is always a string this code wrote, so it always parses.
CronDecision(d, t) ==
    IF ~Has(d, CronName, "last_execution")
    THEN LET nextRun == SchedNext(schedule, t - Minute) IN
         IF nextRun <= t
         THEN [branch |-> "first", fire |-> TRUE, nextRun |-> nextRun,
               write |-> TRUE, store |-> Format(FireStamp(nextRun, t))]
         ELSE [branch |-> "first-wait", fire |-> FALSE, nextRun |-> nextRun,
               write |-> FALSE, store |-> 0]
    ELSE LET lastExec == Parse(Get(d, CronName, "last_execution"))
             nextRun == SchedNext(schedule, lastExec)
             timeSinceScheduled == t - nextRun
         IN  IF nextRun < t
             THEN IF Missed(timeSinceScheduled)
                  THEN [branch |-> "missed", fire |-> FALSE, nextRun |-> nextRun,
                        write |-> TRUE, store |-> Format(t)]
                  ELSE [branch |-> "late", fire |-> TRUE, nextRun |-> nextRun,
                        write |-> TRUE, store |-> Format(FireStamp(nextRun, t))]
             ELSE IF nextRun = t
                  THEN [branch |-> "now", fire |-> TRUE, nextRun |-> nextRun,
                        write |-> TRUE, store |-> Format(FireStamp(nextRun, t))]
                  ELSE [branch |-> "future", fire |-> FALSE, nextRun |-> nextRun,
                        write |-> FALSE, store |-> 0]

\* the last three entries of the list of fires
Recent(s) == IF Len(s) > 3 THEN SubSeq(s, Len(s) - 2, Len(s)) ELSE s

\* CronTrigger.Check called when the clock reads t
CronCheckAt(t) ==
    LET dec == CronDecision(data, t) IN
    \E saved \in BOOLEAN :
        /\ ~dec.write => saved
        /\ IF ~dec.write
           THEN UNCHANGED storeVars
           ELSE Set(CronName, "last_execution", dec.store, saved)
        /\ cron' = [flip |-> 1 - cron.flip,
                    branch |-> dec.branch,
                    nextRun |-> dec.nextRun,
                    fired |-> dec.fire /\ saved,
                    err |-> ~saved]
        /\ fired' = IF dec.fire /\ saved THEN fired \cup {dec.nextRun} ELSE fired
        /\ missed' = IF dec.branch = "missed" THEN missed \cup {dec.nextRun}
                     ELSE missed
        /\ fires' = IF dec.fire /\ saved
                    THEN Recent(Append(fires, [at |-> t, sched |-> dec.nextRun]))
                    ELSE fires
        /\ now' = t
        /\ UNCHANGED schedule
        /\ UNCHANGED <<orchVars, gitVars, watchVars>>

\* CronTrigger.Check
CronCheck == CronCheckAt(now)

\* the process is started again: State.Load reads the file
CronRestart ==
    /\ data # file
    /\ data' = file
    /\ UNCHANGED <<file, save, cronVars, orchVars, gitVars, watchVars>>

OrchIdle ==
    /\ units = <<>>
    /\ results = EmptyMap
    /\ activeUnit = ""
    /\ pc = "idle"
    /\ isStartup = TRUE
    /\ unitIdx = 1
    /\ frames = <<>>
    /\ sweeps = 0
    /\ ran = EmptyMap
    /\ lastRef = NoRef
    /\ triggeringUnit = EmptyMap
    /\ injected = EmptyMap
    /\ ctx = "none"
    /\ call = NoCall
    /\ ticker = FALSE

CronInit ==
    /\ OrchIdle
    /\ now = 0
    /\ schedule \in Schedules
    /\ data \in {EmptyMap, Put(EmptyMap, CronName, "last_execution", 0)}
    /\ file = data
    /\ cron = NoCheck
    /\ fired = {}
    /\ missed = {}
    /\ fires = <<>>
    /\ git = NoGit
    /\ save = NoSave
    /\ files = NoFiles
    /\ boot = NoBoot

CronNext == Tick \/ CronCheck \/ CronRestart

CronSpec == CronInit /\ [][CronNext]_vars

----------------------------------------------------------------------------
(* Properties of the cron trigger *)

Period == schedule * Minute

\* the step is a call of CronTrigger.Check
IsCronCheck == cron'.flip # cron.flip

HasLastExec(d) == Has(d, CronName, "last_execution")

LastExec(d) == Get(d, CronName, "last_execution")

\* C6 as stated: two checks that both fire are at least one scheduled period
\* apart.
C6_FiresOnePeriodApart ==
    Len(fires) >= 2 => fires[Len(fires)].at - fires[Len(fires) - 1].at >= Period

\* C6 as amended: the scheduled instants of two fires are at least one period
\* apart, so between two checks less than one period apart at most two fires
\* occur, for two different scheduled instants, the first of them a late one.
C6_FiresForDistinctInstants ==
    /\ \A k \in 1..(Len(fires) - 1) :
          /\ fires[k + 1].sched - fires[k].sched >= Period
          /\ fires[k + 1].at - fires[k].at < Period => fires[k].at > fires[k].sched
    /\ Len(fires) = 3 => fires[3].at - fires[1].at >= Period

C6_Witness ==
    /\ Len(fires) >= 2
    /\ fires[Len(fires)].at - fires[Len(fires) - 1].at < Period
    /\ fires[Len(fires)].at > fires[Len(fires) - 1].at

\* C7: a check that fires does so for a scheduled instant it has not fired
\* for before, and leaves that scheduled instant, not the instant of the
\* check, as last_execution in memory and on disk.
C7_OncePerScheduledInstant ==
    [][ (IsCronCheck /\ cron'.fired) =>
            /\ cron'.nextRun \notin fired
            /\ cron'.nextRun % Period = 0
            /\ cron'.nextRun <= now
            /\ HasLastExec(data') /\ LastExec(data') = Format(cron'.nextRun)
            /\ HasLastExec(file') /\ LastExec(file') = Format(cron'.nextRun) ]_vars

C7_Witness ==
    /\ cron.branch = "future" /\ ~cron.fired
    /\ fires # <<>>
    /\ Last(fires).sched = cron.nextRun - Period
    /\ Last(fires).at > Last(fires).sched
    /\ now > Last(fires).at
    /\ now < cron.nextRun

\* C8: when the scheduled instant that follows last_execution is more than
\* 60 seconds before now, the check does not fire and sets last_execution to
\* now (in memory, and on disk when the save succeeds); no check ever fires
\* for a scheduled instant that was skipped this way.
C8_NeverCatchUp == missed \cap fired = {}

C8_MissedRunSkipped ==
    /\ []C8_NeverCatchUp
    /\ [][ (/\ IsCronCheck
            /\ HasLastExec(data)
            /\ now - SchedNext(schedule, Parse(LastExec(data))) > toleranceWindow) =>
                /\ ~cron'.fired
                /\ cron'.branch = "missed"
                /\ LastExec(data') = Format(now)
                /\ ~cron'.err => LastExec(file') = Format(now) ]_vars

C8_Witness ==
    /\ cron.branch = "future" /\ ~cron.fired
    /\ \E m \in missed : \E f \in fired : f > m
    /\ LastExec(data) = Format(Last(fires).sched)

\* C9: with a last_execution, when the scheduled instant that follows it is
\* at or before now and at most 60 seconds old, the check fires and leaves
\* that scheduled instant as last_execution (unless the save fails, which the
\* check reports as an error); when it is after now the check does not fire
\* and writes nothing.
C9_FiresWithinTolerance ==
    [][ (IsCronCheck /\ HasLastExec(data)) =>
            LET nextRun == SchedNext(schedule, Parse(LastExec(data))) IN
            /\ (nextRun <= now /\ now - nextRun <= toleranceWindow /\ ~cron'.err) =>
                    /\ cron'.fired
                    /\ LastExec(data') = Format(nextRun)
                    /\ LastExec(file') = Format(nextRun)
            /\ nextRun > now =>
                    /\ ~cron'.fired /\ ~cron'.err
                    /\ data' = data /\ file' = file ]_vars

C9_Witness ==
    /\ cron.branch = "late" /\ cron.fired
    /\ now - cron.nextRun = toleranceWindow
    /\ LastExec(file) = Format(cron.nextRun)

----------------------------------------------------------------------------
(* The git trigger in its own right *)

Outcomes == {"fire", "skip", "error"}

\* a check of the trigger on its own
GitCheck ==
    /\ \E mode \in CheckModes : \E outcome \in Outcomes : GitCheckAs(mode, outcome)
    /\ UNCHANGED <<cronVars, orchVars, watchVars>>

\* somebody commits to the tracked branch
Commit ==
    /\ \E h \in Hashes \ {git.head} :
          git' = [git EXCEPT !.head = h, !.mode = "none", !.why = "none", !.prev = "none"]
    /\ UNCHANGED <<storeVars, cronVars, orchVars, watchVars>>

\* the process is started again: the state file is loaded, the trigger is
\* constructed anew
GitRestart ==
    /\ data # file \/ git.everChecked
    /\ data' = file
    /\ git' = [git EXCEPT !.everChecked = FALSE, !.lastCheckTime = 0, !.mode = "none",
                           !.why = "none", !.prev = "none"]
    /\ UNCHANGED <<file, save, cronVars, orchVars, watchVars>>

GitInit ==
    /\ OrchIdle
    /\ now = 0
    /\ schedule = 1
    /\ data = EmptyMap
    /\ file = data
    /\ cron = NoCheck
    /\ fired = {}
    /\ missed = {}
    /\ fires = <<>>
    /\ \E p \in PollIntervals : \E h \in Hashes :
          git = [NoGit EXCEPT !.pollInterval = p, !.head = h]
    /\ save = NoSave
    /\ files = NoFiles
    /\ boot = NoBoot

\* the instants the trigger is looked at: under and over each poll interval
GitInstants ==
    {0, 1, 10 * Second, Minute - 1, Minute, Minute + 10 * Second}

\* time passes
GitTick ==
    /\ \E t \in GitInstants : t > now /\ now' = t
    /\ UNCHANGED <<schedule, cron, fired, missed, fires>>
    /\ UNCHANGED <<orchVars, storeVars, gitVars, watchVars>>

GitNext == GitTick \/ GitCheck \/ Commit \/ GitRestart

GitSpec == GitInit /\ [][GitNext]_vars

----------------------------------------------------------------------------
(* Properties of the git trigger *)

\* the step is a call of GitTrigger.Check
IsGitCheck == git'.flip # git.flip

\* C10: a check in Polling mode of a git trigger whose poll interval is 0
\* returns false without an error, leaves the state in memory and on disk and
\* the trigger's own fields as they are and does not look at the repository,
\* whatever the repository's HEAD is.
C10_PassivePollingNoOp ==
    [][ (IsGitCheck /\ git'.mode = "polling" /\ git.pollInterval = 0) =>
            /\ ~git'.fired /\ ~git'.err
            /\ ~git'.inspected
            /\ data' = data /\ file' = file
            /\ git'.everChecked = git.everChecked
            /\ git'.lastCheckTime = git.lastCheckTime
            /\ git'.head = git.head
            /\ git'.pollInterval = git.pollInterval ]_vars

C10_Witness ==
    /\ git.mode = "polling" /\ git.pollInterval = 0
    /\ ~git.fired /\ ~git.inspected
    /\ Has(data, GitName, "last_commit_hash")
    /\ Get(data, GitName, "last_commit_hash") # git.head

StoredHash(d) == Get(d, GitName, "last_commit_hash")

HasStoredHash(d) == Has(d, GitName, "last_commit_hash")

C12_PollIntervalThrottle ==
    [][ (IsGitCheck /\ git'.mode = "polling" /\ git.pollInterval > 0) =>
            IF git.everChecked /\ now - git.lastCheckTime < git.pollInterval
                THEN /\ ~git'.fired /\ ~git'.err /\ ~git'.inspected
                     /\ git'.lastCheckTime = git.lastCheckTime
                     /\ data' = data /\ file' = file
                ELSE /\ git'.inspected
                     /\ git'.everChecked
                     /\ git'.lastCheckTime = now ]_vars

C12_Witness ==
    /\ git.mode = "polling" /\ git.why = "skipped"
    /\ git.pollInterval > 0
    /\ git.prev = "changed"
    /\ now > git.lastCheckTime
    /\ HasStoredHash(data) /\ StoredHash(data) = git.head

\* C14: a check that looks at the repository and returns no error fires when
\* HEAD differs from the recorded hash and leaves HEAD as the recorded hash in
\* memory and on disk; the next such check, with no commit in between, does
\* not fire and writes nothing.
C14_FiresOncePerCommit ==
    [][ (IsGitCheck /\ git'.inspected /\ ~git'.err /\ HasStoredHash(data)) =>
            /\ StoredHash(data) # git.head =>
                  /\ git'.fired
                  /\ StoredHash(data') = git.head
                  /\ HasStoredHash(file') /\ StoredHash(file') = git.head
            /\ (git.fired /\ git.mode # "none") =>
                  /\ ~git'.fired
                  /\ data' = data /\ file' = file ]_vars

C14_Witness ==
    /\ git.prev = "changed" /\ git.why = "same"
    /\ ~git.fired /\ git.inspected
    /\ StoredHash(file) = git.head

\* HEAD is the recorded hash, in memory and in the state file
HeadRecorded ==
    /\ HasStoredHash(data) /\ StoredHash(data) = git.head
    /\ HasStoredHash(file) /\ StoredHash(file) = git.head

\* C39: however Polling and Manual checks of the trigger, the passing of
\* time and restarts of the process follow each other, a commit fires at most
\* once: a check that fires, in either mode, leaves HEAD recorded in memory
\* and on disk, and from then on HEAD stays recorded and no check in either
\* mode fires until HEAD changes.
C39_OneFirePerCommit ==
    /\ [][ (IsGitCheck /\ git'.fired) =>
              (~HeadRecorded /\ HeadRecorded' /\ git'.head = git.head) ]_vars
    /\ [][ (HeadRecorded /\ git'.head = git.head) =>
              (HeadRecorded' /\ ~(IsGitCheck /\ git'.fired)) ]_vars

\* a Manual check finds nothing new at the instant at which a Polling check
\* has looked at the repository, right after a check has fired for HEAD
C39_Witness ==
    /\ git.pollInterval > 0
    /\ git.mode = "manual" /\ git.why = "same" /\ git.prev = "changed"
    /\ git.everChecked /\ git.lastCheckTime = now /\ now > 0
    /\ HeadRecorded

----------------------------------------------------------------------------
(* The orchestrator over cron -> git (no poll interval) -> build *)

Chain ==
    << U("cron", "trigger.cron", <<GitName>>, <<>>, <<>>),
       U(GitName, "trigger.git", <<"build">>, <<>>, <<>>),
       U("build", "run", <<>>, <<>>, <<>>) >>

ChainInit ==
    /\ units = Chain
    /\ results = EmptyMap
    /\ activeUnit = ""
    /\ pc = "idle"
    /\ isStartup = TRUE
    /\ unitIdx = 1
    /\ frames = <<>>
    /\ sweeps = 0
    /\ ran = [n \in Names(Chain) |-> 0]
    /\ lastRef = NoRef
    /\ triggeringUnit = [n \in Names(Chain) |-> ""]
    /\ injected = [n \in Names(Chain) |-> NoContext]
    /\ ctx = "none"
    /\ call = NoCall
    /\ ticker = FALSE
    /\ data \in {EmptyMap} \cup {Put(EmptyMap, GitName, "last_commit_hash", h) : h \in Hashes}
    /\ file = data
    /\ now = 0
    /\ schedule = 1
    /\ cron = NoCheck
    /\ fired = {}
    /\ missed = {}
    /\ fires = <<>>
    /\ \E h \in Hashes : git = [NoGit EXCEPT !.head = h]
    /\ save = NoSave
    /\ files = NoFiles
    /\ boot = NoBoot

ChainNext == Next \/ Commit

ChainSpec == ChainInit /\ [][ChainNext]_vars

\* the step is one iteration of checkAndExecuteTriggers' loop, on unit n
IsCheckTriggerOf(n) ==
    /\ pc = "sweep" /\ frames = <<>>
    /\ unitIdx <= Len(units)
    /\ unitIdx' = unitIdx + 1
    /\ units[unitIdx].name = n

\* C13: in cron -> git (no poll interval) -> build, the sweep's own check of
\* git never fires; when cron has fired, git is checked in Manual mode, and
\* while the recorded hash equals HEAD that check keeps git and build from
\* running; when HEAD differs from the recorded hash (and the check returns
\* no error) git runs and records HEAD, and when git's run returned no error
\* build runs. Build runs in no other way.
C13_BuildOnlyAfterCommit ==
    [][ /\ IsCheckTriggerOf(GitName) => (ran' = ran /\ frames' = <<>> /\ ~git'.inspected)
        /\ (IsProcessRef /\ Last(frames).unit = "cron") =>
              /\ lastRef'.target = GitName
              /\ git'.mode = "manual" /\ git'.inspected
              /\ (HasStoredHash(data) /\ StoredHash(data) = git.head) =>
                    (lastRef'.outcome = "skipped" /\ ran' = ran)
              /\ (~git'.err /\ ~(HasStoredHash(data) /\ StoredHash(data) = git.head)) =>
                    /\ lastRef'.outcome = "executed"
                    /\ ran'[GitName] = ran[GitName] + 1
                    /\ StoredHash(data') = git.head
                    /\ Last(frames').toTrigger =
                          IF Last(frames').execErr THEN <<>> ELSE <<"build">>
        /\ (IsProcessRef /\ Last(frames).unit = GitName) =>
              /\ lastRef'.target = "build"
              /\ ran'["build"] = ran["build"] + 1
        /\ ran'["build"] > ran["build"] =>
              (IsProcessRef /\ Last(frames).unit = GitName /\ git.fired) ]_vars

C13_Witness ==
    /\ sweeps = 2 /\ pc = "sweep"
    /\ lastRef.target = "build" /\ lastRef.outcome = "executed"
    /\ ran["build"] = 1
    /\ git.mode = "manual" /\ git.why = "changed"
    /\ StoredHash(file) = git.head

----------------------------------------------------------------------------
(* The file trigger *)

FileName == "watch"

\* the paths the pattern can match
Paths == 1..MaxFiles

\* SHA-256 of a file's contents; "" stands for a file that cannot be read
FileHashes == {"", "x", "y"}

\* getFilesState: the regular files matching the pattern, path -> hash
Trees == UNION {[ps -> FileHashes] : ps \in SUBSET Paths}

\* sort.Strings(keys)
SortedKeys(ks) ==
    CHOOSE q \in [1..Cardinality(ks) -> ks] :
        \A i, j \in 1..Cardinality(ks) : i < j => q[i] < q[j]

\* the parts "path:hash" in the order of the sorted paths
filesStateToString(filesState) ==
    LET keys == SortedKeys(DOMAIN filesState)
    IN  [i \in 1..Cardinality(DOMAIN filesState) |-> <<keys[i], filesState[keys[i]]>>]

\* variant: every check finds a change
FileFiresAlways(ok, lastStateStr, currentStateStr) == TRUE

\* no previous state, or the state has changed
FileFires(ok, lastStateStr, currentStateStr) ==
    ~ok \/ currentStateStr # lastStateStr

\* FileTrigger.Check: read the files, load the state, compare, store
FileCheck ==
    /\ \E globOk \in BOOLEAN, loadOk \in BOOLEAN, saved \in BOOLEAN :
        LET currentStateStr == filesStateToString(files.tree)
            ok   == Has(file, FileName, "files_state")
            fire == FileFires(ok, IF ok THEN file[FileName]["files_state"] ELSE << >>,
                              currentStateStr)
            done(f, e) == [files EXCEPT !.flip = 1 - @, !.fired = f, !.err = e,
                                        !.settled = ~e, !.prevFired = files.fired]
        IN  IF ~globOk
            THEN /\ loadOk /\ saved
                 /\ files' = done(FALSE, TRUE)
                 /\ UNCHANGED storeVars
            ELSE IF ~loadOk
            THEN /\ saved
                 /\ files' = done(FALSE, TRUE)
                 /\ UNCHANGED storeVars
            ELSE IF fire
            THEN /\ data' = Put(file, FileName, "files_state", currentStateStr)
                 /\ file' = IF saved THEN data' ELSE file
                 /\ save' = save
                 /\ files' = done(saved, ~saved)
            ELSE /\ saved
                 /\ data' = file
                 /\ UNCHANGED <<file, save>>
                 /\ files' = done(FALSE, FALSE)
    /\ UNCHANGED <<orchVars, cronVars, gitVars, boot>>

\* a matching file is created, removed or rewritten
Touch ==
    /\ \E p \in Paths, h \in FileHashes \cup {None} :
          LET old == files.tree
              t == IF h = None
                   THEN [q \in DOMAIN old \ {p} |-> old[q]]
                   ELSE [q \in DOMAIN old \cup {p} |-> IF q = p THEN h ELSE old[q]]
          IN  /\ t # old
              /\ files' = [files EXCEPT !.tree = t, !.settled = FALSE,
                                        !.prevFired = FALSE, !.fired = FALSE]
    /\ UNCHANGED <<orchVars, storeVars, cronVars, gitVars, boot>>

\* the process is started again
FileRestart ==
    /\ data # file
    /\ data' = file
    /\ UNCHANGED <<file, save, orchVars, cronVars, gitVars, watchVars>>

FileInit ==
    /\ OrchIdle
    /\ now = 0
    /\ schedule = 1
    /\ data = EmptyMap
    /\ file = data
    /\ save = NoSave
    /\ cron = NoCheck
    /\ fired = {}
    /\ missed = {}
    /\ fires = <<>>
    /\ git = NoGit
    /\ boot = NoBoot
    /\ \E t \in Trees : files = [NoFiles EXCEPT !.tree = t]

FileNext == FileCheck \/ Touch \/ FileRestart

FileSpec == FileInit /\ [][FileNext]_vars

\* the step is a call of FileTrigger.Check
IsFileCheck == files'.flip # files.flip

HasFingerprint(d) == Has(d, FileName, "files_state")

Fingerprint(d) == Get(d, FileName, "files_state")

----------------------------------------------------------------------------
(* The boot trigger *)

BootName == "boot"

\* the instants at which the machine boots
BootInstants == {k * 30 * Second : k \in 0..(MaxBoots - 1)}

\* by how much now - uptime is off the boot instant when it is computed
Jitters == {0, 1, 10 * Second, 10 * Second + 1}

bootTolerance == 10 * Second

Abs(d) == IF d < 0 THEN 0 - d ELSE d

\* variant: any difference counts as a new boot
NewBootStrict(diff) == diff > 0

\* isFirstRun: the boot time has changed by more than the tolerance
NewBoot(diff) == diff > bootTolerance

\* two calls of State.Set in a row, the second only if the first returned nil
SetBoth(unitName, key1, value1, key2, value2, saved1, saved2) ==
    LET data1 == Put(data, unitName, key1, value1)
        file1 == IF saved1 THEN data1 ELSE file
        data2 == Put(data1, unitName, key2, value2)
    IN  /\ data' = IF saved1 THEN data2 ELSE data1
        /\ file' = IF saved1 /\ saved2 THEN data2 ELSE file1
        /\ save' = save

\* BootTrigger.Check
BootCheck ==
    /\ \E readOk \in BOOLEAN, jitter \in Jitters, saved1 \in BOOLEAN, saved2 \in BOOLEAN :
        LET currentBootTime == boot.bootTime + jitter
            ok    == Has(data, BootName, "last_boot_time")
            diff  == IF ok THEN Abs(currentBootTime
                                        - Parse(data[BootName]["last_boot_time"]))
                     ELSE 0
            bootCount == IF ~ok THEN 1
                         ELSE IF Has(data, BootName, "boot_count")
                         THEN data[BootName]["boot_count"] + 1
                         ELSE 1
            done(f, e) == [boot EXCEPT !.flip = 1 - @, !.fired = f, !.err = e,
                                       !.computed = currentBootTime,
                                       !.firesThisBoot = IF f THEN @ + 1 ELSE @,
                                       !.restarted = IF f THEN FALSE ELSE @,
                                       !.last = "check"]
        IN  IF ~readOk
            THEN /\ jitter = 0 /\ saved1 /\ saved2
                 /\ boot' = [done(FALSE, TRUE) EXCEPT !.computed = boot.computed]
                 /\ UNCHANGED storeVars
            ELSE IF ~ok \/ NewBoot(diff)
            THEN /\ saved1 \/ saved2
                 /\ bootCount <= MaxBootCount
                 /\ SetBoth(BootName, "last_boot_time", Format(currentBootTime),
                            "boot_count", bootCount, saved1, saved2)
                 /\ boot' = done(saved1 /\ saved2, ~(saved1 /\ saved2))
            ELSE /\ saved1 /\ saved2
                 /\ boot' = done(FALSE, FALSE)
                 /\ UNCHANGED storeVars
    /\ UNCHANGED <<orchVars, cronVars, gitVars, files>>

\* the machine boots again, and with it the process
Reboot ==
    /\ boot.bootTime + 30 * Second \in BootInstants
    /\ boot' = [boot EXCEPT !.bootTime = @ + 30 * Second, !.firesThisBoot = 0,
                            !.restarted = FALSE, !.last = "reboot", !.fired = FALSE]
    /\ data' = file
    /\ UNCHANGED <<file, save, orchVars, cronVars, gitVars, files>>

\* the process is started again during the same boot
BootRestart ==
    /\ ~boot.restarted \/ data # file
    /\ boot' = [boot EXCEPT !.restarted = TRUE, !.last = "restart"]
    /\ data' = file
    /\ UNCHANGED <<file, save, orchVars, cronVars, gitVars, files>>

BootInit ==
    /\ OrchIdle
    /\ now = 0
    /\ schedule = 1
    /\ data = EmptyMap
    /\ file = data
    /\ save = NoSave
    /\ cron = NoCheck
    /\ fired = {}
    /\ missed = {}
    /\ fires = <<>>
    /\ git = NoGit
    /\ files = NoFiles
    /\ boot = NoBoot

BootNext == BootCheck \/ Reboot \/ BootRestart

BootSpec == BootInit /\ [][BootNext]_vars

\* the step is a call of BootTrigger.Check
IsBootCheck == boot'.flip # boot.flip

HasLastBoot(d) == Has(d, BootName, "last_boot_time")

LastBoot(d) == Get(d, BootName, "last_boot_time")

\* after a check has returned true the boot instant it computed is the
\* recorded one, in memory and on disk
C16_FireIsRecorded ==
    (boot.fired /\ boot.last = "check") =>
        /\ HasLastBoot(data) /\ LastBoot(data) = Format(boot.computed)
        /\ HasLastBoot(file) /\ LastBoot(file) = Format(boot.computed)

\* C16: a check that fires leaves the boot instant it computed as
\* last_boot_time in memory and on disk, where a restart of the process finds
\* it again; and a check that computes a boot instant at most 10 seconds from
\* the recorded one returns false and writes nothing.
C16_OncePerBoot ==
    /\ []C16_FireIsRecorded
    /\ [][ (/\ IsBootCheck
            /\ ~boot'.err
            /\ HasLastBoot(data)
            /\ Abs(boot'.computed - Parse(LastBoot(data))) <= bootTolerance) =>
                /\ ~boot'.fired
                /\ data' = data /\ file' = file ]_vars

C16_Witness ==
    /\ boot.last = "check" /\ ~boot.fired /\ ~boot.err
    /\ boot.firesThisBoot = 1
    /\ boot.restarted
    /\ boot.bootTime > 0
    /\ boot.computed - Parse(LastBoot(file)) = bootTolerance

----------------------------------------------------------------------------
(* The state store, with the write of the file in its steps *)

StoreUnits == {"a", "b"}

StoreKeys == {"hash", "count"}

\* the scalars kept under a key: strings, and integers for a counter
StoreValues(key) == IF key = "count" THEN {1, 2} ELSE {"v", "w"}

\* what is in the file when the write of d has not come to its end
Torn(d) == {[u \in us |-> d[u]] : us \in (SUBSET DOMAIN d) \ {DOMAIN d}}

\* State.Set up to os.WriteFile opening the file: the map is mutated, then
\* either Save fails before it has touched the file, or the file is opened
\* and truncated
StoreSet ==
    /\ save.phase = "none"
    /\ \E unitName \in StoreUnits, key \in StoreKeys, opened \in BOOLEAN :
        \E value \in StoreValues(key) :
            /\ data' = Put(data, unitName, key, value)
            /\ file' = IF opened THEN EmptyMap ELSE file
            /\ save' = [phase |-> IF opened THEN "writing" ELSE "none",
                        last |-> "set", unit |-> unitName, key |-> key,
                        value |-> value, ok |-> FALSE, loadOk |-> FALSE,
                        old |-> file, new |-> data']
    /\ UNCHANGED <<orchVars, cronVars, gitVars, watchVars>>

\* os.WriteFile writes and Save returns: nil with the whole map in the file,
\* or an error with part of it
SaveWrite ==
    /\ save.phase = "writing"
    /\ \E written \in BOOLEAN : \E torn \in Torn(data) :
          /\ written => torn = EmptyMap
          /\ file' = Saved(data, torn, written)
          /\ save' = [save EXCEPT !.phase = "none", !.ok = written]
    /\ UNCHANGED <<data, orchVars, cronVars, gitVars, watchVars>>

\* State.Load
StoreLoad ==
    /\ save.phase = "none"
    /\ \E readOk \in BOOLEAN :
          /\ data' = IF readOk THEN file ELSE data
          /\ save' = [save EXCEPT !.last = "load", !.loadOk = readOk]
    /\ UNCHANGED <<file, orchVars, cronVars, gitVars, watchVars>>

\* the process is killed, at any point of a Set, and started again
StoreCrash ==
    /\ save.phase = "writing" \/ data # file
    /\ data' = file
    /\ save' = [save EXCEPT !.phase = "none", !.last = "crash", !.ok = FALSE]
    /\ UNCHANGED <<file, orchVars, cronVars, gitVars, watchVars>>

StoreInit ==
    /\ OrchIdle
    /\ now = 0
    /\ schedule = 1
    /\ data = EmptyMap
    /\ file = data
    /\ save = NoSave
    /\ cron = NoCheck
    /\ fired = {}
    /\ missed = {}
    /\ fires = <<>>
    /\ git = NoGit
    /\ files = NoFiles
    /\ boot = NoBoot

StoreNext == StoreSet \/ SaveWrite \/ StoreLoad \/ StoreCrash

StoreSpec == StoreInit /\ [][StoreNext]_vars

\* C17: when Set has returned nil the state file holds exactly what the map in
\* memory holds.
C17_FileEqualsMemory ==
    (save.last = "set" /\ save.phase = "none" /\ save.ok) => file = data

C17_Witness ==
    /\ save.last = "set" /\ save.phase = "none" /\ save.ok
    /\ DOMAIN data = StoreUnits
    /\ save.old # EmptyMap /\ save.old # file

\* C18 as stated: from the start of a Set on, whether it returns or the
\* process is killed, the state file holds either all of what it held before
\* the Set or all of the new map.
C18_FileOldOrNew ==
    save.last \in {"set", "crash"} => (file = save.old \/ file = save.new)

\* the pairs other than (unitName, key) hold in e what they hold in d
OthersUnchanged(d, e, unitName, key) ==
    \A u \in StoreUnits, k \in StoreKeys :
        (u # unitName \/ k # key) =>
            /\ Has(e, u, k) <=> Has(d, u, k)
            /\ Has(d, u, k) => e[u][k] = d[u][k]

----------------------------------------------------------------------------
(* The orchestrator over one unit of each kind *)

\* the kinds of unit a reference may name
Kinds ==
    {"trigger.boot", "trigger.cron", "trigger.file",
     "run", "reboot", "log", "count", "email", "ntfy"}

\* start -> k ; k -> s on success, f on failure, z always
KindGraphs ==
    { << U("start", "trigger.start", <<"k">>, <<"f">>, <<"z">>),
         U("k", t, os, of, al),
         U("s", "log", <<>>, <<>>, <<>>),
         U("f", "log", <<>>, <<>>, <<>>),
         U("z", "log", <<>>, <<>>, <<>>) >> :
        t \in Kinds,
        os \in {<<"s">>, <<"s", "z">>},
        of \in {<<"f">>, <<>>},
        al \in {<<"z">>, <<>>} }

KindInit ==
    /\ units \in KindGraphs
    /\ results = EmptyMap
    /\ activeUnit = ""
    /\ pc = "idle"
    /\ isStartup = TRUE
    /\ unitIdx = 1
    /\ frames = <<>>
    /\ sweeps = 0
    /\ ran = [n \in Names(units) |-> 0]
    /\ lastRef = NoRef
    /\ triggeringUnit = [n \in Names(units) |-> ""]
    /\ injected = [n \in Names(units) |-> NoContext]
    /\ ctx = "none"
    /\ call = NoCall
    /\ ticker = FALSE
    /\ data = EmptyMap
    /\ file = EmptyMap
    /\ now = 0
    /\ schedule = 1
    /\ cron = NoCheck
    /\ fired = {}
    /\ missed = {}
    /\ fires = <<>>
    /\ git = NoGit
    /\ save = NoSave
    /\ files = NoFiles
    /\ boot = NoBoot

KindSpec == KindInit /\ [][Next]_vars

\* the downstream list the fan-out rule gives unit n for its stored result
Expected(n) ==
    LET u == unitsByName(units, n)
    IN  (IF results[n].error THEN u.onFailure ELSE u.onSuccess) \o u.always

----------------------------------------------------------------------------
(* RunOnce under a context that may be cancelled *)

\* a build with its notifications, and a second trigger behind it
Shutdown ==
    << U("start", "trigger.start", <<"build">>, <<>>, <<>>),
       U("build", "run", <<"deploy">>, <<"mail">>, <<"c">>),
       U("deploy", "run", <<>>, <<"mail">>, <<>>),
       U("mail", "email", <<>>, <<>>, <<>>),
       U("c", "count", <<>>, <<>>, <<>>),
       U("watch", "trigger.file", <<"l">>, <<>>, <<>>),
       U("l", "log", <<>>, <<>>, <<>>) >>

OnceGraphs ==
    {SharedSink, IndirectCycle, SelfLoop, ComplexChain, GatedTrigger, UnknownRef,
     Shutdown}

\* NewOrchestrator over one of the graphs gs, handed the context c
Fresh(gs, c) ==
    /\ units \in gs
    /\ results = EmptyMap
    /\ activeUnit = ""
    /\ pc = "idle"
    /\ isStartup = TRUE
    /\ unitIdx = 1
    /\ frames = <<>>
    /\ sweeps = 0
    /\ ran = [n \in Names(units) |-> 0]
    /\ lastRef = NoRef
    /\ triggeringUnit = [n \in Names(units) |-> ""]
    /\ injected = [n \in Names(units) |-> NoContext]
    /\ ctx = c
    /\ call = NoCall
    /\ ticker = FALSE
    /\ data = EmptyMap
    /\ file = EmptyMap
    /\ now = 0
    /\ schedule = 1
    /\ cron = NoCheck
    /\ fired = {}
    /\ missed = {}
    /\ fires = <<>>
    /\ git = NoGit
    /\ save = NoSave
    /\ files = NoFiles
    /\ boot = NoBoot

\* Orchestrator.Stop: the context is cancelled while the entry point runs
Cancel ==
    /\ ctx = "live"
    /\ call.op # "none" /\ call.ret = None
    /\ ctx' = "cancelled"
    /\ UNCHANGED <<units, results, activeUnit, pc, isStartup, unitIdx, frames,
                   sweeps, ran, lastRef, triggeringUnit, injected>>
    /\ UNCHANGED <<entryVars, storeVars, cronVars, gitVars, watchVars>>

\* RunOnce is called
RunOnce ==
    /\ call.op = "none"
    /\ pc = "idle"
    /\ call' = [NoCall EXCEPT !.op = "RunOnce"]
    /\ BeginSweep(TRUE)
    /\ UNCHANGED ticker

\* RunOnce returns nil
RunOnceReturn ==
    /\ call.op = "RunOnce"
    /\ EndSweep("returned")
    /\ call' = [call EXCEPT !.ret = "nil"]
    /\ UNCHANGED ticker

OnceInit == Fresh(OnceGraphs, "live")

OnceNext == RunOnce \/ CheckTrigger \/ ProcessRef \/ Return \/ RunOnceReturn \/ Cancel

OnceSpec == OnceInit /\ [][OnceNext]_vars

\* C22: a check that returns an error, a reference to a name that is no
\* unit and a run that returns an error each cost the sweep one step and no
\* more: the loop over the references goes on to the next reference, an
\* execution returns only when its whole list is handled, RunOnce returns
\* only when the loop over o.units is over, and what it returns is nil.
C22_SweepNeverAborts ==
    /\ [](call.ret # None =>
            /\ call.ret = "nil"
            /\ frames = <<>>
            /\ unitIdx = Len(units) + 1)
    /\ [][ /\ IsProcessRef =>
               /\ frames'[Len(frames)].i = Last(frames).i + 1
               /\ frames'[Len(frames)].toTrigger = Last(frames).toTrigger
           /\ IsReturn => Last(frames).i = Len(Last(frames).toTrigger) + 1
           /\ unitIdx' # unitIdx => unitIdx' = unitIdx + 1 \/ (pc = "idle" /\ unitIdx' = 1)
         ]_vars

\* RunOnce has returned nil from a sweep that met an unknown name, a failed
\* run and, last, a check that returned an error
C22_Witness ==
    /\ call.ret = "nil"
    /\ units = UnknownRef
    /\ "a" \in DOMAIN results /\ results["a"].error
    /\ lastRef.from = "a" /\ lastRef.target = "t" /\ lastRef.check = "error"

\* the step calls Check on a trigger unit, from the sweep or from fan-out
IsCheck ==
    \/ /\ pc = "sweep" /\ frames = <<>>
       /\ unitIdx <= Len(units)
       /\ unitIdx' = unitIdx + 1
       /\ IsTriggerUnit(units[unitIdx])
       /\ ~(~isStartup /\ StartupOnly(units[unitIdx]))
    \/ /\ IsProcessRef
       /\ lastRef'.check # "n/a"

\* C23: once the context is cancelled during a sweep, the sweep unwinds: no
\* further unit is checked and no further unit is run in that sweep.
C23_NothingAfterCancel ==
    [][ (pc = "sweep" /\ ctx = "cancelled") => (ran' = ran /\ ~IsCheck) ]_vars

\* C26: a unit whose run is interrupted by the cancellation of the context
\* ends as failed, and the error recorded for it in the results map is a
\* context-cancelled error.
C26_InterruptedIsCancelled ==
    \A n \in DOMAIN results :
        (results[n].interrupted /\ ObservesContext(unitsByName(units, n))) =>
            (results[n].error /\ results[n].cause = "cancelled")

----------------------------------------------------------------------------
(* RunDaemon and the end of the process *)

\* RunDaemon is called: the ticker is made, the startup sweep begins
RunDaemon ==
    /\ call.op = "none"
    /\ pc = "idle"
    /\ call' = [NoCall EXCEPT !.op = "RunDaemon"]
    /\ BeginSweep(TRUE)
    /\ UNCHANGED ticker

\* ten seconds have passed: the ticker leaves a tick in ticker.C, whose
\* buffer holds one; a tick that finds the buffer full is dropped
TickerFires ==
    /\ call.op = "RunDaemon" /\ call.ret = None
    /\ ~ticker
    /\ ticker' = TRUE
    /\ UNCHANGED <<units, results, activeUnit, pc, isStartup, unitIdx, frames,
                   sweeps, ran, lastRef, triggeringUnit, injected, ctx, call>>
    /\ UNCHANGED <<storeVars, cronVars, gitVars, watchVars>>

\* a sweep of the daemon is over: back to the select
DaemonSweepEnd ==
    /\ call.op = "RunDaemon"
    /\ EndSweep("select")
    /\ UNCHANGED entryVars

\* variant: the tick is served while the sweep before it is still running
DaemonTickOverlapping ==
    /\ pc \in {"select", "sweep"}
    /\ ticker
    /\ sweeps < MaxSweeps
    /\ ticker' = FALSE
    /\ BeginSweep(FALSE)
    /\ UNCHANGED call

\* the select takes the case <-ticker.C, whatever the other case
DaemonTick ==
    /\ pc = "select"
    /\ ticker
    /\ sweeps < MaxSweeps
    /\ ticker' = FALSE
    /\ BeginSweep(FALSE)
    /\ UNCHANGED call

\* variant: the daemon returns as soon as the context is cancelled
DaemonDoneAtOnce ==
    /\ call.op = "RunDaemon" /\ call.ret = None
    /\ ctx = "cancelled"
    /\ pc' = "returned"
    /\ call' = [call EXCEPT !.ret = "cancelled"]
    /\ UNCHANGED <<units, results, activeUnit, isStartup, unitIdx, frames,
                   sweeps, ran, lastRef, triggeringUnit, injected, ctx, ticker>>
    /\ UNCHANGED <<storeVars, cronVars, gitVars, watchVars>>

\* the select takes the case <-ctx.Done(): RunDaemon returns ctx.Err()
DaemonDone ==
    /\ pc = "select"
    /\ ctx = "cancelled"
    /\ pc' = "returned"
    /\ call' = [call EXCEPT !.ret = "cancelled"]
    /\ UNCHANGED <<units, results, activeUnit, isStartup, unitIdx, frames,
                   sweeps, ran, lastRef, triggeringUnit, injected, ctx, ticker>>
    /\ UNCHANGED <<storeVars, cronVars, gitVars, watchVars>>

\* the process ends: what waits for the signal has cancelled the context,
\* and the program has waited for the orchestrator to return
ProcessExit ==
    /\ pc = "returned"
    /\ pc' = "exited"
    /\ UNCHANGED <<units, results, activeUnit, isStartup, unitIdx, frames,
                   sweeps, ran, lastRef, triggeringUnit, injected, ctx>>
    /\ UNCHANGED <<entryVars, storeVars, cronVars, gitVars, watchVars>>

DaemonInit == Fresh({Shutdown, GatedTrigger}, "live")

DaemonNext ==
    \/ RunDaemon \/ TickerFires \/ CheckTrigger \/ ProcessRef \/ Return
    \/ DaemonSweepEnd \/ DaemonTick \/ DaemonDone \/ Cancel \/ ProcessExit

DaemonSpec == DaemonInit /\ [][DaemonNext]_vars

\* C24: RunDaemon begins its first sweep when it is called and every later
\* sweep on a tick; once the context is cancelled it begins no further
\* sweep; it returns only when the context is cancelled, and what it returns
\* is the cancellation cause.
C24_DaemonSweeps ==
    [][ /\ sweeps' # sweeps =>
               /\ ctx # "cancelled"
               /\ IF sweeps = 0 THEN call.op = "none" /\ isStartup'
                  ELSE ticker /\ ~ticker' /\ ~isStartup'
        /\ call'.ret # call.ret =>
               /\ ctx = "cancelled"
               /\ call'.ret = "cancelled" ]_vars

C32_Serialised ==
    /\ [][ sweeps' # sweeps =>
               /\ pc \in {"idle", "select"}
               /\ frames = <<>>
               /\ activeUnit = ""
               /\ sweeps > 0 => unitIdx > Len(units) ]_vars
    /\ [][ (ticker /\ pc = "sweep") => (sweeps' = sweeps /\ ticker') ]_vars
    /\ [](\A i \in 1..Len(frames) :
             frames[i].callStack =
                 (IF i = 1 THEN <<>> ELSE frames[i - 1].callStack) \o <<frames[i].unit>>)
    /\ [][ sweeps' = sweeps =>
               Cardinality({n \in Names(units) : ran'[n] # ran[n]}) <= 1 ]_vars

\* the second sweep of the daemon is running a unit while the next tick is
\* already waiting in the ticker's channel
C32_Witness ==
    /\ call.op = "RunDaemon"
    /\ sweeps = 2
    /\ pc = "sweep"
    /\ activeUnit # ""
    /\ ticker

----------------------------------------------------------------------------
(* RunSingleUnit *)

\* the names RunSingleUnit is called with: the units and a name that is none
SingleNames(g) == Names(g) \cup {"ghost"}

\* RunSingleUnit is called: the unit is looked up, the results are cleared
RunSingleUnit ==
    /\ call.op = "none"
    /\ pc = "idle"
    /\ \E unitName \in SingleNames(units), runTriggers \in BOOLEAN :
          IF unitName \notin Names(units)
          THEN /\ call' = [op |-> "RunSingleUnit", unit |-> unitName,
                           runTriggers |-> runTriggers, ret |-> "error"]
               /\ pc' = "returned"
               /\ UNCHANGED results
          ELSE /\ call' = [op |-> "RunSingleUnit", unit |-> unitName,
                           runTriggers |-> runTriggers, ret |-> None]
               /\ pc' = "single"
               /\ results' = ClearedResults
    /\ UNCHANGED <<units, activeUnit, isStartup, unitIdx, frames, sweeps, ran,
                   lastRef, triggeringUnit, injected, ctx, ticker>>
    /\ UNCHANGED <<storeVars, cronVars, gitVars, watchVars>>

\* executeUnitNoTriggers: executeUnit without the call of processTriggers
executeUnitNoTriggers(u) ==
    \E err \in RunErrors(u), interrupted \in Interrupts, elapsed \in Elapsed(u) :
        \E cause \in Causes(u, err, ctx, interrupted, elapsed) :
        /\ (ObservesContext(u) /\ (ctx = "cancelled" \/ interrupted)) => err
        /\ DeadlineExceeded(u, elapsed) => err
        /\ Run(u, err)
        /\ ctx' = IF interrupted THEN "cancelled" ELSE ctx
        /\ activeUnit' = u.name
        /\ ran' = [ran EXCEPT ![u.name] = @ + 1]
        /\ results' = [n \in DOMAIN results \cup {u.name} |->
                          IF n = u.name
                          THEN [error |-> err, cause |-> cause, output |-> Output(u),
                                interrupted |-> interrupted, elapsed |-> elapsed,
                                text |-> ErrorText(u, cause)]
                          ELSE results[n]]
        /\ frames' = <<[unit |-> u.name, callStack |-> <<u.name>>,
                        toTrigger |-> <<>>, i |-> 1, execErr |-> err,
                        cause |-> cause, output |-> Output(u)]>>

\* RunSingleUnit from the lookup on: with runTriggers a trigger unit is
\* checked in Manual mode and executed when the check says so; without, the
\* unit is run on its own
SingleStart ==
    /\ pc = "single"
    /\ UNCHANGED <<units, isStartup, unitIdx, sweeps, triggeringUnit, injected, ticker>>
    /\ UNCHANGED <<cronVars, watchVars>>
    /\ LET unit == unitsByName(units, call.unit)
           ref(c, o) == [from |-> "", target |-> unit.name, callStack |-> <<>>,
                         check |-> c, outcome |-> o]
       IN  IF call.runTriggers
           THEN \E outcome \in {"fire", "skip", "error", "n/a"} :
                  /\ IF IsTriggerUnit(unit)
                     THEN Check(unit, "manual", outcome)
                     ELSE outcome = "n/a" /\ UNCHANGED gitVars
                  /\ lastRef' = ref(outcome, IF Proceeds(unit, outcome)
                                             THEN "executed" ELSE "skipped")
                  /\ IF Proceeds(unit, outcome)
                     THEN /\ pc' = "sweep"
                          /\ executeUnit(unit, <<unit.name>>, <<>>)
                          /\ UNCHANGED call
                     ELSE /\ pc' = "returned"
                          /\ call' = [call EXCEPT !.ret = IF outcome = "error"
                                                          THEN "error" ELSE "nil"]
                          /\ UNCHANGED <<results, activeUnit, frames, ran, ctx>>
           ELSE /\ pc' = "sweep"
                /\ executeUnitNoTriggers(unit)
                /\ IF IsTriggerUnit(unit) THEN UNCHANGED storeVars ELSE TRUE
                /\ lastRef' = ref("n/a", "executed")
                /\ UNCHANGED <<call, gitVars>>

\* the unit's execution is over: RunSingleUnit returns the error of its run
SingleReturn ==
    /\ call.op = "RunSingleUnit"
    /\ pc = "sweep"
    /\ frames = <<>>
    /\ pc' = "returned"
    /\ call' = [call EXCEPT !.ret = IF results[call.unit].error
                                    THEN "error" ELSE "nil"]
    /\ UNCHANGED <<units, results, activeUnit, isStartup, unitIdx, frames, sweeps,
                   ran, lastRef, triggeringUnit, injected, ctx, ticker>>
    /\ UNCHANGED <<storeVars, cronVars, gitVars, watchVars>>

\* the state file may hold the hash an earlier process recorded, and the
\* workspace has a HEAD
SingleInit ==
    /\ units \in {GatedTrigger, UnknownRef, ComplexChain, Chain}
    /\ results = EmptyMap
    /\ activeUnit = ""
    /\ pc = "idle"
    /\ isStartup = TRUE
    /\ unitIdx = 1
    /\ frames = <<>>
    /\ sweeps = 0
    /\ ran = [n \in Names(units) |-> 0]
    /\ lastRef = NoRef
    /\ triggeringUnit = [n \in Names(units) |-> ""]
    /\ injected = [n \in Names(units) |-> NoContext]
    /\ ctx = "none"
    /\ call = NoCall
    /\ ticker = FALSE
    /\ data \in {EmptyMap} \cup {Put(EmptyMap, GitName, "last_commit_hash", h) : h \in Hashes}
    /\ file = data
    /\ now = 0
    /\ schedule = 1
    /\ cron = NoCheck
    /\ fired = {}
    /\ missed = {}
    /\ fires = <<>>
    /\ \E h \in Hashes : git = [NoGit EXCEPT !.head = h]
    /\ save = NoSave
    /\ files = NoFiles
    /\ boot = NoBoot

SingleNext == RunSingleUnit \/ SingleStart \/ ProcessRef \/ Return \/ SingleReturn

SingleSpec == SingleInit /\ [][SingleNext]_vars

\* C28: RunSingleUnit on a trigger unit with runTriggers first calls the
\* unit's check, in Manual mode; when the check returns false the call
\* returns nil and neither the unit nor any unit downstream of it has run.
C28_SingleTriggerChecked ==
    /\ [][ (/\ pc = "single" /\ pc' # "single"
             /\ call.runTriggers
             /\ IsTriggerUnit(unitsByName(units, call.unit))) =>
                /\ lastRef'.target = call.unit
                /\ lastRef'.check \in {"fire", "skip", "error"}
                /\ call.unit = GitName => (git'.flip # git.flip /\ git'.mode = "manual")
                /\ lastRef'.check = "skip" =>
                       /\ pc' = "returned"
                       /\ call'.ret = "nil"
                       /\ ran' = ran /\ results' = results /\ frames' = <<>> ]_vars
    /\ []((/\ call.op = "RunSingleUnit" /\ call.runTriggers
            /\ call.unit \in Names(units)
            /\ IsTriggerUnit(unitsByName(units, call.unit))
            /\ lastRef.target = call.unit /\ lastRef.check = "skip") =>
               /\ pc = "returned"
               /\ call.ret = "nil"
               /\ results = EmptyMap
               /\ \A n \in Names(units) : ran[n] = 0)

\* the git trigger was asked for, its check looked at the repository in
\* Manual mode and found nothing new: the call has returned nil
C28_Witness ==
    /\ call.op = "RunSingleUnit" /\ call.runTriggers
    /\ call.unit = GitName
    /\ units = Chain
    /\ git.mode = "manual" /\ git.inspected /\ ~git.fired /\ ~git.err
    /\ pc = "returned" /\ call.ret = "nil"

-----------------------------------------------------------------------------
(* The context handed to log, count, email and ntfy targets *)

\* the kinds of unit the orchestrator hands context to
Notified == {"log", "count", "email", "ntfy"}

\* start -> r ; r -> n1 on failure, n2 always ; n1 -> n2 always: n2 is
\* invoked by two units in one sweep
NotifyGraphs ==
    { << U("start", "trigger.start", <<"r">>, <<>>, <<>>),
         U("r", "run", <<>>, <<"n1">>, <<"n2">>),
         U("n1", t1, <<>>, <<>>, <<"n2">>),
         U("n2", t2, <<>>, <<>>, <<>>) >> :
        t1 \in Notified, t2 \in Notified }

NotifyInit == Fresh(NotifyGraphs, "none")

NotifySpec == NotifyInit /\ [][Next]_vars

-----------------------------------------------------------------------------
(* GetActiveUnit beside RunOnce and RunSingleUnit *)

\* GetActiveUnit: the marker, read under the lock setActiveUnit writes it under
GetActiveUnit == activeUnit

\* one iteration of the loop over o.units, in a sweep RunOnce started
OnceCheck == call.op = "RunOnce" /\ CheckTrigger

ActiveInit == Fresh({ComplexChain, SharedSink, GatedTrigger}, "none")

\* either entry point is called once; GetActiveUnit may be called in any state
ActiveNext ==
    RunOnce \/ OnceCheck \/ RunOnceReturn \/ RunSingleUnit \/ SingleStart
        \/ SingleReturn \/ ProcessRef \/ Return

ActiveSpec == ActiveInit /\ [][ActiveNext]_vars

-----------------------------------------------------------------------------
(* Run units with a timeout *)

\* a run unit with a timeout
Timed(n, timeout, os, of, al) ==
    [name |-> n, type |-> "run", onSuccess |-> os, onFailure |-> of,
     always |-> al, timeout |-> timeout]

\* start -> job ; job -> ok on success, retry on failure, c always ;
\* retry -> alarm on failure.  TestRunUnit_WithTimeout: sleep 5 under 1s
TimedGraphs ==
    { << U("start", "trigger.start", <<"job">>, <<>>, <<>>),
         Timed("job", t1, <<"ok">>, <<"retry">>, <<"c">>),
         Timed("retry", t2, <<>>, <<"alarm">>, <<>>),
         U("ok", "log", <<>>, <<>>, <<>>),
         U("alarm", "email", <<>>, <<>>, <<>>),
         U("c", "count", <<>>, <<>>, <<>>) >> :
        t1 \in {1, 2}, t2 \in {0, 1} }

TimedInit == Fresh(TimedGraphs, "none")

TimedSpec == TimedInit /\ [][Next]_vars

\* the execution of unit n recorded in results ran into its timeout
TimedOut(n) ==
    /\ n \in DOMAIN results
    /\ DeadlineExceeded(unitsByName(units, n), results[n].elapsed)

\* C33: when the timeout of a run unit elapses before its script exits, run
\* returns an error whose text is "task timed out after <timeout>", and the
\* downstream list of the execution is the unit's on_failure references
\* followed by always, all of which are handled before the execution returns.
C33_TimeoutFails ==
    /\ [](\A n \in Names(units) : TimedOut(n) =>
             /\ results[n].error
             /\ results[n].cause = "timeout"
             /\ results[n].text =
                    <<"task timed out after ", Timeout(unitsByName(units, n))>>)
    /\ [](\A i \in 1..Len(frames) : TimedOut(frames[i].unit) =>
             LET u == unitsByName(units, frames[i].unit)
             IN  /\ frames[i].execErr
                 /\ frames[i].cause = "timeout"
                 /\ frames[i].toTrigger = u.onFailure \o u.always)
    /\ [][ (IsProcessRef /\ TimedOut(Last(frames).unit)) =>
               LET u == unitsByName(units, Last(frames).unit)
               IN  lastRef'.target = (u.onFailure \o u.always)[Last(frames).i] ]_vars
    /\ [][ (IsReturn /\ TimedOut(Last(frames).unit)) =>
               LET u == unitsByName(units, Last(frames).unit)
               IN  Last(frames).i = Len(u.onFailure \o u.always) + 1 ]_vars

\* job ran into its timeout; its on_failure target retry has run and the
\* always target c has counted the run for job
C33_Witness ==
    /\ units \in TimedGraphs
    /\ TimedOut("job")
    /\ results["job"].text = <<"task timed out after ", 2>>
    /\ ran["retry"] = 1
    /\ ran["ok"] = 0
    /\ lastRef.from = "job" /\ lastRef.target = "c" /\ lastRef.outcome = "executed"
    /\ Has(data, "c", "job")

-----------------------------------------------------------------------------
(* Units that write the state store, and a Save that may fail *)

\* cron -> git ; git -> c on success, alarm on failure ; c -> alarm on failure
Persist ==
    << U("cron", "trigger.cron", <<GitName>>, <<>>, <<>>),
       U(GitName, "trigger.git", <<"c">>, <<"alarm">>, <<>>),
       U("c", "count", <<>>, <<"alarm">>, <<>>),
       U("alarm", "log", <<>>, <<>>, <<>>) >>

\* the orchestrator over the graphs gs, started on a state file that may
\* hold the hash an earlier process recorded, beside a workspace with a HEAD
Recorded(gs) ==
    /\ units \in gs
    /\ results = EmptyMap
    /\ activeUnit = ""
    /\ pc = "idle"
    /\ isStartup = TRUE
    /\ unitIdx = 1
    /\ frames = <<>>
    /\ sweeps = 0
    /\ ran = [n \in Names(units) |-> 0]
    /\ lastRef = NoRef
    /\ triggeringUnit = [n \in Names(units) |-> ""]
    /\ injected = [n \in Names(units) |-> NoContext]
    /\ ctx = "none"
    /\ call = NoCall
    /\ ticker = FALSE
    /\ data \in {EmptyMap} \cup {Put(EmptyMap, GitName, "last_commit_hash", h) : h \in Hashes}
    /\ file = data
    /\ now = 0
    /\ schedule = 1
    /\ cron = NoCheck
    /\ fired = {}
    /\ missed = {}
    /\ fires = <<>>
    /\ \E h \in Hashes : git = [NoGit EXCEPT !.head = h]
    /\ save = NoSave
    /\ files = NoFiles
    /\ boot = NoBoot

PersistInit == Recorded({Persist})

PersistNext == Next \/ Commit

PersistSpec == PersistInit /\ [][PersistNext]_vars

\* the step is a check of the git trigger whose Set mutated the store and
\* whose Save failed
GitSaveFails ==
    /\ git'.flip # git.flip
    /\ git'.err
    /\ data' # data

\* the step is a run of a count unit whose Save failed
CountSaveFails(n) ==
    /\ unitsByName(units, n).type = "count"
    /\ ran'[n] = ran[n] + 1
    /\ file' # data'

\* C34: a Save that fails inside Set makes the mutating unit fail: the unit
\* has a result with the error and its on_failure references are the
\* downstream list that is handled, whether the unit is a trigger that
\* records its condition in its check or a count unit; the sweep goes on.
C34_SaveFailureFansOut ==
    /\ [][ GitSaveFails =>
               /\ GitName \in DOMAIN results'
               /\ results'[GitName].error
               /\ frames' # <<>>
               /\ Last(frames').unit = GitName
               /\ Last(frames').toTrigger =
                      unitsByName(units, GitName).onFailure
                          \o unitsByName(units, GitName).always ]_vars
    /\ [][ \A n \in Names(units) : CountSaveFails(n) =>
               /\ results'[n].error
               /\ Last(frames').unit = n
               /\ Last(frames').toTrigger =
                      unitsByName(units, n).onFailure \o unitsByName(units, n).always ]_vars
    /\ [][ (GitSaveFails \/ \E n \in Names(units) : CountSaveFails(n)) =>
               (pc' = pc /\ sweeps' = sweeps) ]_vars

-----------------------------------------------------------------------------
(* The count unit over counters of earlier runs *)

\* the names a counter of c may be kept under: SharedSink's a and b, and
\* "unknown"
CounterKeys == {"a", "b", "unknown"}

\* the counters the state file may hold for c when the process starts
InitialCounts ==
    UNION {[keys -> 1..MaxCount] : keys \in SUBSET CounterKeys}

\* RunOnce or RunSingleUnit over start -> a, b ; a, b -> c, on a state file
\* that holds counters of earlier runs
CountInit ==
    /\ units = SharedSink
    /\ results = EmptyMap
    /\ activeUnit = ""
    /\ pc = "idle"
    /\ isStartup = TRUE
    /\ unitIdx = 1
    /\ frames = <<>>
    /\ sweeps = 0
    /\ ran = [n \in Names(units) |-> 0]
    /\ lastRef = NoRef
    /\ triggeringUnit = [n \in Names(units) |-> ""]
    /\ injected = [n \in Names(units) |-> NoContext]
    /\ ctx = "none"
    /\ call = NoCall
    /\ ticker = FALSE
    /\ \E m \in InitialCounts :
          data = IF DOMAIN m = {} THEN EmptyMap ELSE [n \in {"c"} |-> m]
    /\ file = data
    /\ now = 0
    /\ schedule = 1
    /\ cron = NoCheck
    /\ fired = {}
    /\ missed = {}
    /\ fires = <<>>
    /\ git = NoGit
    /\ save = NoSave
    /\ files = NoFiles
    /\ boot = NoBoot

CountSpec == CountInit /\ [][ActiveNext]_vars

\* the counters kept for count unit n in store d
Counters(d, n) == IF n \in DOMAIN d THEN d[n] ELSE EmptyMap

\* C35: each run of a count unit adds exactly one to the integer the store
\* holds under the unit's name and the name of the unit that triggered it,
\* "unknown" when none did, starting from zero when there is none, and
\* leaves the counters the unit keeps for other triggering units as they
\* were; when the run returns no error the file holds the same counters.
C35_CountsByOne ==
    [][ \A n \in Names(units) :
          (unitsByName(units, n).type = "count" /\ ran'[n] = ran[n] + 1) =>
             LET key == IF lastRef'.from = "" THEN "unknown" ELSE lastRef'.from
                 old == Counters(data, n)
                 new == Counters(data', n)
             IN  /\ lastRef'.target = n
                 /\ DOMAIN new = DOMAIN old \cup {key}
                 /\ new[key] = (IF key \in DOMAIN old THEN old[key] ELSE 0) + 1
                 /\ \A k \in DOMAIN old \ {key} : new[k] = old[k]
                 /\ ~results'[n].error => file' = data' ]_vars

\* c has run for a and then for b in one sweep: a's counter went from 2 to
\* 3, b's from none to 1, the counter for "unknown" is as it was
C35_Witness ==
    /\ call.op = "RunOnce"
    /\ ran["c"] = 2
    /\ lastRef.from = "b" /\ lastRef.target = "c"
    /\ Counters(data, "c") = [k \in CounterKeys |->
                                 IF k = "a" THEN 3 ELSE IF k = "b" THEN 1 ELSE 2]

-----------------------------------------------------------------------------
(* The store after a Save that failed *)

\* C36: a commit the git trigger detected in a check whose Save failed is not
\* lost: as long as the file does not hold HEAD's hash, a check that looks at
\* the repository and returns no error fires.
C36_EventNotLost ==
    [][ (/\ git'.flip # git.flip
         /\ git'.inspected
         /\ ~git'.err
         /\ ~(HasStoredHash(file) /\ StoredHash(file) = git.head)) =>
            git'.fired ]_vars

\* C37: when the Save inside Set fails, the in-memory store is what it was
\* before the Set, the last state that was written to the file: a count
\* unit whose run failed has changed neither the store nor the file, and
\* the store and the file never differ.
C37_FailedSetInvisible ==
    /\ [][ \A n \in Names(units) :
             (/\ unitsByName(units, n).type = "count"
              /\ ran'[n] = ran[n] + 1
              /\ results'[n].error) => (data' = data /\ file' = file) ]_vars
    /\ [](data = file)

-----------------------------------------------------------------------------
(* The cron trigger polled at least once a minute *)

\* the daemon's next sweep reaches the cron trigger: the clock has moved on
\* since the check before, by no more than 60 seconds
PolledCheck ==
    \E t \in Instants :
        /\ t > now
        /\ t - now <= 60 * Second
        /\ CronCheckAt(t)

\* the process starts at any instant, on a state file with or without a
\* last_execution of long ago
PollInit ==
    /\ OrchIdle
    /\ now \in Instants
    /\ schedule \in Schedules
    /\ data \in {EmptyMap, Put(EmptyMap, CronName, "last_execution", 0)}
    /\ file = data
    /\ cron = NoCheck
    /\ fired = {}
    /\ missed = {}
    /\ fires = <<>>
    /\ git = NoGit
    /\ save = NoSave
    /\ files = NoFiles
    /\ boot = NoBoot

PollSpec == PollInit /\ [][PolledCheck]_vars

\* the scheduled instants after instant a, up to and including instant b
ScheduledIn(a, b) == {s \in (a + 1)..b : s % Period = 0}

\* C38: with checks never more than 60 seconds apart, no check after the
\* first gives a scheduled instant up as missed, and every scheduled instant
\* after the first check is fired exactly once: a check finds the oldest
\* instant that has not fired yet at most 60 seconds old and fires for it,
\* and last_execution never moves past an instant that has not fired.
\* (A check whose state write fails returns an error instead of firing.)
C38_NoInstantSkipped ==
    [][ (IsCronCheck /\ cron.branch # "none") =>
            /\ cron'.branch # "missed"
            /\ missed' = missed
            /\ HasLastExec(data) =>
                  LET due == SchedNext(schedule, Parse(LastExec(data))) IN
                  /\ due <= now' =>
                        /\ now' - due <= 60 * Second
                        /\ due \notin fired
                        /\ cron'.nextRun = due
                        /\ ~cron'.err =>
                              /\ cron'.fired
                              /\ fired' = fired \cup {due}
                              /\ ScheduledIn(Parse(LastExec(data)),
                                             Parse(LastExec(data'))) = {due}
                  /\ due > now' => (~cron'.fired /\ data' = data)
            /\ ~HasLastExec(data) =>
                  /\ Cardinality(ScheduledIn(now, now')) <= 1
                  /\ \A s \in ScheduledIn(now, now') :
                        /\ s \notin fired
                        /\ cron'.nextRun = s
                        /\ ~cron'.err => (cron'.fired /\ fired' = fired \cup {s})
                  /\ ScheduledIn(now, now') = {} => ~cron'.fired ]_vars

\* three scheduled minutes in a row have fired, the last of them 59.5 s late
C38_Witness ==
    /\ schedule = 1
    /\ Len(fires) = 3
    /\ fires[2].sched = fires[1].sched + Period
    /\ fires[3].sched = fires[2].sched + Period
    /\ fires[3].at = fires[3].sched + 60 * Second - 1
    /\ now = fires[3].at
    /\ missed = {}

----------------------------------------------------------------------------
(* One trigger referenced several times by one unit *)

\* cron -> git, git on success and git once more under always ; git -> build
Repeated ==
    << U("cron", "trigger.cron", <<GitName, GitName>>, <<>>, <<GitName>>),
       U(GitName, "trigger.git", <<"build">>, <<>>, <<>>),
       U("build", "run", <<>>, <<>>, <<>>) >>

RepeatedInit == Recorded({Repeated})

\* the sweeps of the orchestrator, and commits arriving at any moment
RepeatedNext == Next \/ Commit

RepeatedSpec == RepeatedInit /\ [][RepeatedNext]_vars

\* the step is the loop iteration for a reference to the git trigger
IsGitRef == IsProcessRef /\ lastRef'.target = GitName

\* C40: every reference to the git trigger in a fan-out evaluates its Manual
\* check anew and is gated by what that check returned; a reference executes
\* the trigger only when HEAD was not the recorded hash and leaves it
\* recorded, in memory and on disk; and a reference that finds HEAD recorded,
\* as it is after an earlier reference has fired and no commit has arrived
\* since, does not execute the trigger again.
C40_CheckedPerReference ==
    /\ [][ (IsGitRef /\ lastRef'.outcome \in {"executed", "skipped"}) =>
              /\ IsGitCheck
              /\ git'.mode = "manual" /\ git'.inspected
              /\ lastRef'.check = GitResult(git')
              /\ lastRef'.outcome = "executed" <=> git'.fired ]_vars
    /\ [][ (IsGitRef /\ lastRef'.outcome = "executed") =>
              /\ ~HeadRecorded /\ HeadRecorded'
              /\ ran'[GitName] = ran[GitName] + 1 ]_vars
    /\ [][ (IsGitRef /\ HeadRecorded) =>
              /\ lastRef'.outcome \in {"skipped", "cycle"}
              /\ ran' = ran
              /\ results' = results
              /\ HeadRecorded' ]_vars
    /\ [][ (HeadRecorded /\ git'.head = git.head) => HeadRecorded' ]_vars

\* the second reference of cron to git has just been skipped by a check that
\* found nothing new, in the sweep in which the first reference executed git
C40_Witness ==
    /\ units = Repeated /\ pc = "sweep"
    /\ frames # <<>> /\ Last(frames).unit = "cron" /\ Last(frames).i = 3
    /\ lastRef.target = GitName /\ lastRef.from = "cron"
    /\ lastRef.check = "skip" /\ lastRef.outcome = "skipped"
    /\ git.mode = "manual" /\ git.why = "same"
    /\ git.prev \in {"first", "changed"}
    /\ ran[GitName] = 1 /\ ran["build"] = 1
    /\ HeadRecorded

====
